---- MODULE Spec2Model ----
(***************************************************************************)
(* Model of src/day15.rs: the Goblins-vs-Elves combat simulator, followed  *)
(* by the marble game of src/day09.rs, the step order of src/day07.rs and   *)
(* the carts of src/day13.rs.                                              *)
(*                                                                         *)
(* Units live on a heap (Rc<RefCell<Unit>>): `heap` maps a pointer to the  *)
(* Unit it holds.  A GameState is a grid of Positions, where an Occupied   *)
(* Position holds a pointer, and the combatants map from Location to       *)
(* pointer.  One call of GameState::turn is split into TurnBegin (the      *)
(* sorted snapshot), one step per slot of the snapshot, and TurnEnd (the   *)
(* faction count after the loop).  star_one and star_two are the drivers.  *)
(***************************************************************************)
EXTENDS Integers, Sequences, FiniteSets, TLC

VARIABLES
    driver,                    \* "star_one" or "star_two": the entry point called
    heap,                      \* pointer -> Unit (the Rc<RefCell<Unit>> cells)
    initial_state,             \* star_two: the GameState parsed from the input
    number_of_elves_in_combat, \* star_two: elves alive in initial_state
    state,                     \* the GameState the turns run on
    strength_increase,         \* star_two: index of the outer iterator
    id,                        \* index of the inner iterator (turn calls made so far)
    unit_locations,            \* turn: the rest of the sorted snapshot
    turn_result,               \* the pair returned by the last call of turn
    result,                    \* the value returned by the driver
    pc,                        \* control position
    full_rounds,               \* history: calls of turn that returned the flag true
    acted,                     \* history: pointers whose slot was processed this round
    trials,                    \* history: the trials star_two has finished
    call,                      \* tests: the last direct call of a function
    input_text,                \* the text the driver or the test was given
    round_start,               \* history: state and heap when turn was last called
    vector_game,               \* day09: the arguments and locals of solve
    list_game,                 \* day09: the arguments and locals of solve_efficient
    instructions,              \* day07: the input and locals of star_one
    race                       \* day13: the input and locals of star_two

vars == <<vector_game, list_game, instructions, race,
          call, input_text, round_start, driver, heap, initial_state,
          number_of_elves_in_combat, state, strength_increase, id, unit_locations,
          turn_result, result, pc, full_rounds, acted, trials>>

\* what no step of a combat changes
outside == <<call, input_text, vector_game, list_game, instructions, race>>

\* no function of day09 or day07 has been called
OtherDaysIdle ==
    vector_game = <<>> /\ list_game = <<>> /\ instructions = <<>> /\ race = <<>>

(***************************************************************************)
(* Bounds of the model.                                                    *)
(***************************************************************************)
\* most units on an enumerated input grid
MaxUnits == 3
\* most calls of turn in one combat (the drivers have no cap of their own)
MaxTurns == 140
\* highest elf attack power star_two is followed to
MaxStrength == 20

(***************************************************************************)
(* Program constants.                                                      *)
(***************************************************************************)
InitialHealth == 200
InitialStrength == 3
BaseStrength == 4

Glyphs == {"#", ".", "G", "E"}

\* Input text after lines(), trim() and the empty-line filter: a sequence of
\* rows, each a sequence of characters.
SmallGrids ==
    {g \in [1..2 -> [1..2 -> Glyphs]] :
        Cardinality({c \in (1..2) \X (1..2) : g[c[1]][c[2]] \in {"G", "E"}}) <= MaxUnits}

ExtraLayouts ==
    { << <<"E", ".", ".", "G">> >>,
      << <<"G", ".", ".", "E">> >>,
      << <<"E", ".", "#">>, <<".", ".", ".">>, <<"#", ".", "G">> >>,
      << <<"G", ".", ".">>, <<".", "#", ".">>, <<".", ".", "E">> >>,
      << <<"E", "G">>, <<".", "G">>, <<"E", "#">> >>,
      << <<"E", ".", "#", "G">> >>,
      << <<".", ".", ".">>, <<"E", "G", ".">>, <<".", ".", "E">> >>,
      << <<".", "G", ".">>, <<".", ".", ".">>, <<"E", ".", "E">> >>,
      << <<"E", "x">> >> }

\* a character Position::parse has no arm for
OtherGlyphs == {"x"}

\* two rows of two characters with a character that is no glyph of the map
MalformedGrids ==
    {g \in [1..2 -> [1..2 -> Glyphs \cup OtherGlyphs]] :
        /\ \E c \in (1..2) \X (1..2) : g[c[1]][c[2]] \in OtherGlyphs
        /\ Cardinality({c \in (1..2) \X (1..2) : g[c[1]][c[2]] \in {"G", "E"}}) <= MaxUnits}

Layouts == SmallGrids \cup ExtraLayouts \cup MalformedGrids

(***************************************************************************)
(* Locations and reading order.                                            *)
(***************************************************************************)
\* the comparison that looks at the column first
reading_order_column_first(lhs, rhs) ==
    IF lhs[1] # rhs[1]
    THEN (IF lhs[1] < rhs[1] THEN "Less" ELSE "Greater")
    ELSE (IF lhs[2] < rhs[2] THEN "Less"
          ELSE IF lhs[2] > rhs[2] THEN "Greater" ELSE "Equal")

\* Location = (x, y)
reading_order(lhs, rhs) ==
    IF lhs[2] # rhs[2]
    THEN (IF lhs[2] < rhs[2] THEN "Less" ELSE "Greater")
    ELSE (IF lhs[1] < rhs[1] THEN "Less"
          ELSE IF lhs[1] > rhs[1] THEN "Greater" ELSE "Equal")

\* sort_by(reading_order) on a collection of pairwise different locations:
\* repeatedly take the least one
RECURSIVE SortLocations(_)
SortLocations(S) ==
    IF S = {} THEN <<>>
    ELSE LET m == CHOOSE a \in S : \A b \in S \ {a} : reading_order(a, b) = "Less"
         IN  <<m>> \o SortLocations(S \ {m})

(***************************************************************************)
(* Unit and Position.                                                      *)
(***************************************************************************)
Unit_new(unit_type) ==
    [unit_type |-> unit_type, health |-> InitialHealth,
     strength |-> InitialStrength, is_dead |-> FALSE]

\* take_damage not reporting the death of a unit whose health ran out
take_damage_unreported(unit, damage) ==
    IF unit.health - damage >= 0
    THEN [unit |-> [unit EXCEPT !.health = unit.health - damage,
                                !.is_dead = IF unit.health - damage = 0
                                            THEN TRUE ELSE unit.is_dead],
          died |-> (unit.health - damage = 0)]
    ELSE [unit |-> [unit EXCEPT !.health = 0, !.is_dead = TRUE], died |-> FALSE]

\* take_damage taking the damage off the attack power as well
take_damage_weakening(unit, damage) ==
    IF unit.health - damage >= 0
    THEN [unit |-> [unit EXCEPT !.health = unit.health - damage,
                                !.strength = IF unit.strength > damage
                                             THEN unit.strength - damage ELSE 0,
                                !.is_dead = IF unit.health - damage = 0
                                            THEN TRUE ELSE unit.is_dead],
          died |-> (unit.health - damage = 0)]
    ELSE [unit |-> [unit EXCEPT !.health = 0, !.is_dead = TRUE], died |-> TRUE]

\* Unit::take_damage: the unit after the damage and the returned flag
take_damage(unit, damage) ==
    IF unit.health - damage >= 0
    THEN [unit |-> [unit EXCEPT !.health = unit.health - damage,
                                !.is_dead = IF unit.health - damage = 0
                                            THEN TRUE ELSE unit.is_dead],
          died |-> (unit.health - damage = 0)]
    ELSE [unit |-> [unit EXCEPT !.health = 0, !.is_dead = TRUE], died |-> TRUE]

is_alive(unit) == ~unit.is_dead

Wall == [kind |-> "Wall", occupant |-> 0]
Open == [kind |-> "Open", occupant |-> 0]
Occupied(ptr) == [kind |-> "Occupied", occupant |-> ptr]

NoState == [grid |-> <<>>, combatants |-> <<>>]

Height(s) == Cardinality(DOMAIN s.grid)
Width(s) == Cardinality(DOMAIN s.grid[0])
Locations(s) == {l \in (0..Width(s) - 1) \X (0..Height(s) - 1) : TRUE}

(***************************************************************************)
(* GameState::from                                                         *)
(***************************************************************************)
UnitCells(input) ==
    {l \in (0..Len(input[1]) - 1) \X (0..Len(input) - 1) :
        input[l[2] + 1][l[1] + 1] \in {"G", "E"}}

\* the k-th unit met by the row-by-row scan gets pointer k
ParsePtr(input, l) ==
    Cardinality({m \in UnitCells(input) : reading_order(m, l) # "Greater"})

\* the check made on the first row only
ParseOk_first_row(input) ==
    \A x \in 1..Len(input[1]) : input[1][x] \in Glyphs

\* lines 98-110 and 161: no character of the text makes Position::parse
\* return None
ParseOk(input) ==
    \A y \in 1..Len(input) : \A x \in 1..Len(input[y]) : input[y][x] \in Glyphs

Position_parse(input, l) ==
    LET c == input[l[2] + 1][l[1] + 1]
    IN  CASE c = "#" -> Wall
          [] c = "." -> Open
          [] OTHER   -> Occupied(ParsePtr(input, l))

GameState_from(input) ==
    [grid |-> [y \in 0..Len(input) - 1 |->
                 [x \in 0..Len(input[1]) - 1 |-> Position_parse(input, <<x, y>>)]],
     combatants |-> [l \in UnitCells(input) |-> ParsePtr(input, l)]]

ParseHeap(input) ==
    [p \in 1..Cardinality(UnitCells(input)) |->
        LET l == CHOOSE m \in UnitCells(input) : ParsePtr(input, m) = p
        IN  Unit_new(IF input[l[2] + 1][l[1] + 1] = "E" THEN "Elf" ELSE "Goblin")]

(***************************************************************************)
(* GameState: queries.                                                     *)
(***************************************************************************)
\* Option<T>: None is the empty sequence, Some(v) the sequence <<v>>
None == <<>>
Some(v) == <<v>>

Directions == << <<0, 1>>, <<1, 0>>, <<0, -1>>, <<-1, 0>> >>

\* a step that yields the Occupied neighbours whatever only_open says
InRangeStep_yielding_occupied(s, location, direction, only_open) ==
    IF (location[1] = 0 /\ direction[1] = -1) \/ (location[2] = 0 /\ direction[2] = -1)
    THEN None
    ELSE IF (location[1] = Width(s) - 1 /\ direction[1] = 1)
            \/ (location[2] = Height(s) - 1 /\ direction[2] = 1)
    THEN None
    ELSE LET x == location[1] + direction[1]
             y == location[2] + direction[2]
         IN  CASE s.grid[y][x].kind \in {"Open", "Occupied"} -> Some(<<x, y>>)
               [] OTHER -> None

InRangeStep(s, location, direction, only_open) ==
    IF (location[1] = 0 /\ direction[1] = -1) \/ (location[2] = 0 /\ direction[2] = -1)
    THEN None
    ELSE IF (location[1] = Width(s) - 1 /\ direction[1] = 1)
            \/ (location[2] = Height(s) - 1 /\ direction[2] = 1)
    THEN None
    ELSE LET x == location[1] + direction[1]
             y == location[2] + direction[2]
         IN  CASE s.grid[y][x].kind = "Open" -> Some(<<x, y>>)
               [] s.grid[y][x].kind = "Occupied" ->
                      IF ~only_open THEN Some(<<x, y>>) ELSE None
               [] OTHER -> None

\* the neighbours in the order the iterator yields them
in_range(s, location, only_open) ==
    InRangeStep(s, location, Directions[1], only_open)
    \o InRangeStep(s, location, Directions[2], only_open)
    \o InRangeStep(s, location, Directions[3], only_open)
    \o InRangeStep(s, location, Directions[4], only_open)

Range(seq) == {seq[i] : i \in DOMAIN seq}

\* the locations of the enemies of `unit` next to unit_location
enemies_in_range(s, h, unit, unit_location) ==
    {l \in Range(in_range(s, unit_location, FALSE)) :
        /\ l \in DOMAIN s.combatants
        /\ h[s.combatants[l]].unit_type # unit.unit_type}

\* the comparator without the health of the units
EnemyBefore_by_location(s, h, lhs, rhs) == reading_order(lhs, rhs) = "Less"

\* lhs sorts before rhs under the comparator of prioritized_enemy
EnemyBefore(s, h, lhs, rhs) ==
    LET lh == h[s.combatants[lhs]].health
        rh == h[s.combatants[rhs]].health
    IN  IF lh # rh THEN lh < rh ELSE reading_order(lhs, rhs) = "Less"

\* the first of enemies_in_range after the sort
first_enemy(s, h, E) ==
    IF E = {} THEN None
    ELSE Some(CHOOSE e \in E : \A o \in E \ {e} : EnemyBefore(s, h, e, o))

\* Option<Location>; the pointer of the pair is s.combatants[location]
prioritized_enemy(s, h, unit, unit_location) ==
    first_enemy(s, h, enemies_in_range(s, h, unit, unit_location))

num_combatants_alive(s, h, combatant_type) ==
    Cardinality({l \in DOMAIN s.combatants :
                    /\ h[s.combatants[l]].unit_type = combatant_type
                    /\ is_alive(h[s.combatants[l]])})

\* enemies_alive asking for the unit's own faction
enemies_alive_own_faction(s, h, unit) ==
    IF unit.unit_type = "Goblin"
    THEN num_combatants_alive(s, h, "Goblin") # 0
    ELSE num_combatants_alive(s, h, "Elf") # 0

enemies_alive(s, h, unit) ==
    IF unit.unit_type = "Goblin"
    THEN num_combatants_alive(s, h, "Elf") # 0
    ELSE num_combatants_alive(s, h, "Goblin") # 0

\* the locations of the pairs (the pointer is s.combatants[location])
possible_targets(s, h, unit) ==
    {l \in DOMAIN s.combatants : unit.unit_type # h[s.combatants[l]].unit_type}

RECURSIVE SumHealth(_, _, _)
SumHealth(s, h, L) ==
    IF L = {} THEN 0
    ELSE LET l == CHOOSE m \in L : TRUE
         IN  h[s.combatants[l]].health + SumHealth(s, h, L \ {l})

remaining_health_for_faction(s, h, faction) ==
    SumHealth(s, h, {l \in DOMAIN s.combatants :
                        /\ h[s.combatants[l]].unit_type = faction
                        /\ is_alive(h[s.combatants[l]])})

(***************************************************************************)
(* Shortest paths.                                                         *)
(***************************************************************************)
\* Option<usize> of the distance grid: None is NoDistance, which sorts
\* before every Some(d) as None does
NoDistance == -1

\* (location, distance) pairs for the queue
with_distance(locations, distance) ==
    [i \in DOMAIN locations |-> <<locations[i], distance>>]

\* the queue taking only the neighbours that follow current in reading order
unvisited_in_reading_order(s, current, visited, to_visit_set) ==
    SelectSeq(in_range(s, current, TRUE),
              LAMBDA l : /\ l \notin visited /\ l \notin to_visit_set
                         /\ reading_order(current, l) = "Less")

\* the neighbours of current that line 336 lets into the queue
unvisited(s, current, visited, to_visit_set) ==
    SelectSeq(in_range(s, current, TRUE),
              LAMBDA l : l \notin visited /\ l \notin to_visit_set)

\* the while loop of calculate_distance_grid; to_visit is consumed from its
\* head (pop_back) and extended at its tail (push_front)
RECURSIVE DistanceLoop(_, _, _, _, _)
\* the neighbours put where pop_back finds them first
DistanceVisit_depth_first(s, to_visit, visited, to_visit_set, distance_grid, new) ==
    DistanceLoop(s,
        with_distance(new, Head(to_visit)[2] + 1) \o Tail(to_visit),
        visited \cup {Head(to_visit)[1]},
        to_visit_set \cup Range(new),
        [distance_grid EXCEPT ![Head(to_visit)[1]] = Head(to_visit)[2]])

\* lines 333-341: current is Open; new are the neighbours to enqueue
DistanceVisit(s, to_visit, visited, to_visit_set, distance_grid, new) ==
    DistanceLoop(s,
        Tail(to_visit) \o with_distance(new, Head(to_visit)[2] + 1),
        visited \cup {Head(to_visit)[1]},
        to_visit_set \cup Range(new),
        [distance_grid EXCEPT ![Head(to_visit)[1]] = Head(to_visit)[2]])

DistanceLoop(s, to_visit, visited, to_visit_set, distance_grid) ==
    IF to_visit = <<>> THEN distance_grid
    ELSE IF s.grid[Head(to_visit)[1][2]][Head(to_visit)[1][1]].kind = "Open"
    THEN DistanceVisit(s, to_visit, visited, to_visit_set, distance_grid,
             unvisited(s, Head(to_visit)[1],
                       visited \cup {Head(to_visit)[1]}, to_visit_set))
    ELSE DistanceLoop(s, Tail(to_visit), visited \cup {Head(to_visit)[1]},
                      to_visit_set, distance_grid)

\* lines 311-326: the grid and the queue before the loop
DistanceStart(s, from, possible_moves) ==
    DistanceLoop(s,
        with_distance(possible_moves, 1),
        {from},
        Range(possible_moves),
        [l \in Locations(s) |-> IF l = from THEN 0 ELSE NoDistance])

calculate_distance_grid(s, from) ==
    DistanceStart(s, from, SortLocations(Range(in_range(s, from, TRUE))))

\* the comparator without the distances
MoveBefore_by_location(distance_grid, lhs, rhs) == reading_order(lhs, rhs) = "Less"

\* lhs sorts before rhs under the comparator of first_move_on_shortest_path
MoveBefore(distance_grid, lhs, rhs) ==
    IF distance_grid[lhs] # distance_grid[rhs]
    THEN distance_grid[lhs] < distance_grid[rhs]
    ELSE reading_order(lhs, rhs) = "Less"

\* the last element of the sorted possible_moves that has a distance
first_with_distance_last(distance_grid, possible_moves) ==
    IF {l \in possible_moves : distance_grid[l] # NoDistance} = {} THEN None
    ELSE Some(CHOOSE m \in possible_moves :
                /\ distance_grid[m] # NoDistance
                /\ \A o \in possible_moves \ {m} :
                      distance_grid[o] # NoDistance => MoveBefore(distance_grid, o, m))

\* the first element of the sorted possible_moves that has a distance
first_with_distance(distance_grid, possible_moves) ==
    IF {l \in possible_moves : distance_grid[l] # NoDistance} = {} THEN None
    ELSE Some(CHOOSE m \in possible_moves :
                /\ distance_grid[m] # NoDistance
                /\ \A o \in possible_moves \ {m} :
                      distance_grid[o] # NoDistance => MoveBefore(distance_grid, m, o))

first_move_on_shortest_path(s, unit_position, to) ==
    first_with_distance(calculate_distance_grid(s, to),
                        Range(in_range(s, unit_position, TRUE)))

(***************************************************************************)
(* GameState: updates.  Each yields the pair of the new state and heap.    *)
(***************************************************************************)
MapRemove(m, k) == [l \in DOMAIN m \ {k} |-> m[l]]
MapInsert(m, k, v) == [l \in DOMAIN m \cup {k} |-> IF l = k THEN v ELSE m[l]]
SetPosition(s, l, pos) == [s EXCEPT !.grid[l[2]][l[1]] = pos]

\* the hit that leaves the cell of a unit that died Occupied
after_hit_leaving_the_cell(s, h, enemy_location, hit) ==
    [heap  |-> [h EXCEPT ![s.combatants[enemy_location]] = hit.unit],
     state |-> IF hit.died
               THEN [s EXCEPT !.combatants = MapRemove(s.combatants, enemy_location)]
               ELSE s]

\* the hit without the removal of a unit that died
after_hit_keeping_the_dead(s, h, enemy_location, hit) ==
    [heap  |-> [h EXCEPT ![s.combatants[enemy_location]] = hit.unit],
     state |-> s]

\* lines 400-403: the enemy at enemy_location is left as `hit` describes
after_hit(s, h, enemy_location, hit) ==
    [heap  |-> [h EXCEPT ![s.combatants[enemy_location]] = hit.unit],
     state |-> IF hit.died
               THEN [SetPosition(s, enemy_location, Open)
                       EXCEPT !.combatants = MapRemove(s.combatants, enemy_location)]
               ELSE s]

\* lines 396-399: the attack of `unit` on `enemy`, an Option<Location>
attack_enemy(s, h, unit, enemy) ==
    IF enemy = None THEN [state |-> s, heap |-> h]
    ELSE after_hit(s, h, enemy[1],
                   take_damage(h[s.combatants[enemy[1]]], h[unit].strength))

\* lines 394-403 and 463-474: damage the prioritized enemy of the unit that
\* stands at `at`, and remove the enemy when it died
attack(s, h, unit, at) ==
    attack_enemy(s, h, unit, prioritized_enemy(s, h, h[unit], at))

\* lines 418-426: the open cells next to the targets, with their distance
targets_in_grid(s, targets, distance_grid) ==
    {td \in UNION {{<<t, distance_grid[t]>> : t \in Range(in_range(s, e, TRUE))} :
                      e \in targets} :
        td[2] # NoDistance}

\* lines 405-426
possible_targets_with_distance(s, h, unit, unit_location) ==
    targets_in_grid(s, possible_targets(s, h, h[unit]),
                    calculate_distance_grid(s, unit_location))

\* the distance of the first target, the targets left as they were collected
shortest_distance_unsorted(targets) ==
    (CHOOSE td \in targets :
        \A o \in targets : reading_order(td[1], o[1]) # "Greater")[2]

\* lines 432-435
shortest_distance(targets) ==
    CHOOSE d \in {td[2] : td \in targets} : \A td \in targets : d <= td[2]

\* lines 437-443: (target, first move) for the targets at the shortest distance
first_moves(s, unit_location, targets) ==
    IF targets = {} THEN {}
    ELSE {tm \in {<<td[1], first_move_on_shortest_path(s, unit_location, td[1])>> :
                     td \in {c \in targets : c[2] = shortest_distance(targets)}} :
             tm[2] # None}

possible_first_moves(s, h, unit, unit_location) ==
    first_moves(s, unit_location,
                possible_targets_with_distance(s, h, unit, unit_location))

\* lines 445-447: the first pair after the sort by the target's location
first_pair(moves) ==
    CHOOSE m \in moves :
        \A o \in moves : o[1] = m[1] \/ reading_order(m[1], o[1]) = "Less"

\* lines 445-449: the move of the pair whose target is first in reading order
first_in_reading_order(moves) ==
    IF moves = {} THEN None ELSE first_pair(moves)[2]

\* the unit put on the target itself instead of on the first move towards it
new_location_on_the_target(s, h, unit, unit_location) ==
    IF possible_first_moves(s, h, unit, unit_location) = {} THEN None
    ELSE Some(first_pair(possible_first_moves(s, h, unit, unit_location))[1])

\* Option<Location>: the step the unit at unit_location takes, if any
new_location(s, h, unit, unit_location) ==
    first_in_reading_order(possible_first_moves(s, h, unit, unit_location))

(***************************************************************************)
(* The same computations with the order in which the HashMap yields its    *)
(* entries made explicit: keys is a sequence of the keys of the registry.  *)
(***************************************************************************)
\* the orders in which `combatants` can be iterated
IterationOrders(s) ==
    {keys \in [1..Cardinality(DOMAIN s.combatants) -> DOMAIN s.combatants] :
        \A i, j \in DOMAIN keys : keys[i] = keys[j] => i = j}

\* flat_map: the sequences of a sequence, one after the other
RECURSIVE Flatten(_)
Flatten(seqs) ==
    IF seqs = <<>> THEN <<>> ELSE Head(seqs) \o Flatten(Tail(seqs))

\* the stable sort_by of line 432: pairs (location, distance) by distance
RECURSIVE SortByDistance(_)
SortByDistance(pairs) ==
    IF pairs = <<>> THEN <<>>
    ELSE LET last   == pairs[Len(pairs)]
             sorted == SortByDistance(SubSeq(pairs, 1, Len(pairs) - 1))
         IN  SelectSeq(sorted, LAMBDA p : p[2] <= last[2])
                \o <<last>>
                \o SelectSeq(sorted, LAMBDA p : p[2] > last[2])

\* line 445 left out: the pairs as they were collected
SortByTarget_skipped(pairs) == pairs

\* the stable sort_by of lines 381-383 and 445: pairs by reading order of
\* their first component
RECURSIVE SortByTarget(_)
SortByTarget(pairs) ==
    IF pairs = <<>> THEN <<>>
    ELSE LET last   == pairs[Len(pairs)]
             sorted == SortByTarget(SubSeq(pairs, 1, Len(pairs) - 1))
         IN  SelectSeq(sorted, LAMBDA p : reading_order(p[1], last[1]) # "Greater")
                \o <<last>>
                \o SelectSeq(sorted, LAMBDA p : reading_order(p[1], last[1]) = "Greater")

\* lines 378-383
snapshot_in_order(s, keys) ==
    SortByTarget([i \in DOMAIN keys |-> <<keys[i], s.combatants[keys[i]]>>])

\* lines 267-273
possible_targets_in_order(s, h, unit, keys) ==
    SelectSeq(keys, LAMBDA l : unit.unit_type # h[s.combatants[l]].unit_type)

\* lines 418-426
targets_in_grid_in_order(s, targets, distance_grid) ==
    LET cells == Flatten([i \in DOMAIN targets |-> in_range(s, targets[i], TRUE)])
    IN  SelectSeq([i \in DOMAIN cells |-> <<cells[i], distance_grid[cells[i]]>>],
                  LAMBDA td : td[2] # NoDistance)

\* lines 432-443, on the sorted pairs
first_moves_of_sorted(s, unit_location, sorted) ==
    LET nearest == SelectSeq(sorted, LAMBDA td : td[2] = sorted[1][2])
    IN  SelectSeq([i \in DOMAIN nearest |->
                      <<nearest[i][1],
                        first_move_on_shortest_path(s, unit_location, nearest[i][1])>>],
                  LAMBDA tm : tm[2] # None)

\* lines 445-449, on the sorted pairs
first_move_of_sorted(moves) ==
    IF moves = <<>> THEN None ELSE moves[1][2]

\* lines 405-449: Option<Location>, the step of the unit at unit_location
new_location_in_order(s, h, unit, unit_location, keys) ==
    LET targets == targets_in_grid_in_order(
                       s, possible_targets_in_order(s, h, h[unit], keys),
                       calculate_distance_grid(s, unit_location))
    IN  IF targets = <<>> THEN None
        ELSE first_move_of_sorted(
                 SortByTarget(first_moves_of_sorted(s, unit_location,
                                                    SortByDistance(targets))))

\* lines 495-504: the fold over values() in the order given
RECURSIVE remaining_health_in_order(_, _, _, _)
remaining_health_in_order(s, h, faction, keys) ==
    IF keys = <<>> THEN 0
    ELSE LET borrowed_unit == h[s.combatants[keys[Len(keys)]]]
             acc == remaining_health_in_order(s, h, faction,
                                              SubSeq(keys, 1, Len(keys) - 1))
         IN  IF borrowed_unit.unit_type = faction /\ is_alive(borrowed_unit)
             THEN acc + borrowed_unit.health
             ELSE acc

\* move without the removal of the old key
move_keeping_old_key(s, unit, unit_location, to) ==
    [grid |-> SetPosition(SetPosition(s, unit_location, Open), to, Occupied(unit)).grid,
     combatants |-> MapInsert(s.combatants, to, unit)]

\* lines 452-461
move(s, unit, unit_location, to) ==
    [grid |-> SetPosition(SetPosition(s, unit_location, Open), to, Occupied(unit)).grid,
     combatants |-> MapInsert(MapRemove(s.combatants, unit_location), to, unit)]

(***************************************************************************)
(* GameState::cheat                                                        *)
(***************************************************************************)
OccupiedCells(s) == {l \in Locations(s) : s.grid[l[2]][l[1]].kind = "Occupied"}

CellIndex(s, l) ==
    Cardinality({m \in OccupiedCells(s) : reading_order(m, l) # "Greater"})

\* cheat handing out the cells of self instead of clones
cheat_sharing_units(s, h, new_elf_strength) ==
    [state |-> [grid |-> s.grid,
                combatants |-> [l \in OccupiedCells(s) |-> s.grid[l[2]][l[1]].occupant]],
     heap |-> [p \in DOMAIN h |->
                 IF h[p].unit_type = "Elf"
                 THEN [h[p] EXCEPT !.strength = new_elf_strength]
                 ELSE h[p]]]

\* The unit of the k-th Occupied cell is cloned into two fresh cells: the one
\* at base + k goes to the new combatants, with the new strength when it is an
\* elf; the one at 2 * base + k, cloned before the strength is set, goes to
\* the new grid.  base is the number of cells self holds.
cheat(s, h, new_elf_strength) ==
    LET base == Cardinality(OccupiedCells(s))
        cell(k) == CHOOSE l \in OccupiedCells(s) : CellIndex(s, l) = k
        occupant(k) == h[s.grid[cell(k)[2]][cell(k)[1]].occupant]
    IN  [state |->
           [grid |-> [y \in DOMAIN s.grid |-> [x \in DOMAIN s.grid[y] |->
                        IF s.grid[y][x].kind = "Occupied"
                        THEN Occupied(2 * base + CellIndex(s, <<x, y>>))
                        ELSE s.grid[y][x]]],
            combatants |-> [l \in OccupiedCells(s) |-> base + CellIndex(s, l)]],
         heap |->
           [p \in 1..(3 * base) |->
              IF p <= base THEN h[p]
              ELSE IF p <= 2 * base
              THEN IF occupant(p - base).unit_type = "Elf"
                   THEN [occupant(p - base) EXCEPT !.strength = new_elf_strength]
                   ELSE occupant(p - base)
              ELSE occupant(p - 2 * base)]]

(***************************************************************************)
(* Initial states: a driver is called on an input.                         *)
(***************************************************************************)
NoResult == [full_turn |-> FALSE, winner |-> None]

Init ==
    \E input \in Layouts, d \in {"star_one", "star_two"} :
        /\ OtherDaysIdle
        /\ input_text = input
        /\ round_start = None
        /\ driver = d
        /\ strength_increase = 0
        /\ id = 0
        /\ unit_locations = <<>>
        /\ turn_result = NoResult
        /\ result = None
        /\ full_rounds = 0
        /\ acted = {}
        /\ trials = <<>>
        /\ call = None
        /\ IF ~ParseOk(input)
           THEN \* expect() panics inside GameState::from
                /\ pc = "panicked"
                /\ heap = <<>>
                /\ state = NoState
                /\ initial_state = NoState
                /\ number_of_elves_in_combat = 0
           ELSE /\ heap = ParseHeap(input)
                /\ IF d = "star_one"
                   THEN /\ state = GameState_from(input)
                        /\ initial_state = NoState
                        /\ number_of_elves_in_combat = 0
                        /\ pc = "turn"
                   ELSE /\ state = NoState
                        /\ initial_state = GameState_from(input)
                        /\ number_of_elves_in_combat =
                               num_combatants_alive(GameState_from(input),
                                                    ParseHeap(input), "Elf")
                        /\ pc = "trial"

(***************************************************************************)
(* GameState::turn                                                         *)
(***************************************************************************)
\* lines 378-383: the snapshot of the combatants, sorted by location
TurnBegin ==
    /\ pc = "turn"
    /\ id < MaxTurns
    /\ unit_locations' =
         LET sorted == SortLocations(DOMAIN state.combatants)
         IN  [i \in DOMAIN sorted |-> <<sorted[i], state.combatants[sorted[i]]>>]
    /\ acted' = {}
    /\ round_start' = Some([state |-> state, heap |-> heap])
    /\ pc' = "slot"
    /\ UNCHANGED <<outside, driver, heap, initial_state, number_of_elves_in_combat, state,
                   strength_increase, id, turn_result, result, full_rounds, trials>>

unit_location == Head(unit_locations)[1]
unit == Head(unit_locations)[2]

InSlot == pc = "slot" /\ unit_locations # <<>>

\* the loop reading the combatants anew after each slot
NextSlot_rescanning ==
    /\ unit_locations' =
         LET sorted == SortLocations({l \in DOMAIN state'.combatants :
                                        reading_order(unit_location, l) = "Less"})
         IN  [i \in DOMAIN sorted |-> <<sorted[i], state'.combatants[sorted[i]]>>]
    /\ acted' = acted \cup {unit}
    /\ pc' = "slot"
    /\ UNCHANGED <<outside, round_start, driver, initial_state, number_of_elves_in_combat,
                   strength_increase, id, turn_result, result, full_rounds, trials>>

NextSlot ==
    /\ unit_locations' = Tail(unit_locations)
    /\ acted' = acted \cup {unit}
    /\ pc' = "slot"
    /\ UNCHANGED <<outside, round_start, driver, initial_state, number_of_elves_in_combat,
                   strength_increase, id, turn_result, result, full_rounds, trials>>

\* lines 386-388: no enemy of the unit is alive; turn returns
SlotHalt ==
    /\ InSlot
    /\ ~enemies_alive(state, heap, heap[unit])
    /\ turn_result' = [full_turn |-> FALSE, winner |-> Some(heap[unit].unit_type)]
    /\ unit_locations' = <<>>
    /\ pc' = "returned"
    /\ UNCHANGED <<outside, round_start, driver, heap, initial_state,
                   number_of_elves_in_combat, state,
                   strength_increase, id, result, full_rounds, acted, trials>>

\* lines 390-392: the unit died earlier in the round
SlotDead ==
    /\ InSlot
    /\ enemies_alive(state, heap, heap[unit])
    /\ heap[unit].is_dead
    /\ UNCHANGED <<state, heap>>
    /\ NextSlot

\* the slot leaves the state and heap of `outcome`
SlotOutcome(outcome) ==
    /\ state' = outcome.state
    /\ heap' = outcome.heap
    /\ NextSlot

\* the unit in range of an enemy taking a step before it attacks
SlotAttack_stepping ==
    /\ InSlot
    /\ enemies_alive(state, heap, heap[unit])
    /\ ~heap[unit].is_dead
    /\ prioritized_enemy(state, heap, heap[unit], unit_location) # None
    /\ \E to \in Range(new_location(state, heap, unit, unit_location)) :
          SlotOutcome(attack(move(state, unit, unit_location, to), heap, unit, to))

\* lines 394-403: an enemy is in range of the unit
SlotAttack ==
    /\ InSlot
    /\ enemies_alive(state, heap, heap[unit])
    /\ ~heap[unit].is_dead
    /\ prioritized_enemy(state, heap, heap[unit], unit_location) # None
    /\ SlotOutcome(attack(state, heap, unit, unit_location))

\* the step that ends the slot of the unit
MoveTo_without_attack(to) ==
    /\ to # None
    /\ SlotOutcome([state |-> move(state, unit, unit_location, to[1]), heap |-> heap])

\* lines 452-475: the unit steps to `to`, an Option<Location>, and attacks
\* from there
MoveTo(to) ==
    /\ to # None
    /\ SlotOutcome(attack(move(state, unit, unit_location, to[1]), heap, unit, to[1]))

\* lines 405-475: no enemy is in range and a step exists
SlotMove ==
    /\ InSlot
    /\ enemies_alive(state, heap, heap[unit])
    /\ ~heap[unit].is_dead
    /\ prioritized_enemy(state, heap, heap[unit], unit_location) = None
    /\ MoveTo(new_location(state, heap, unit, unit_location))

\* the slot without a step ending the call of turn
SlotIdle_returning ==
    /\ InSlot
    /\ enemies_alive(state, heap, heap[unit])
    /\ ~heap[unit].is_dead
    /\ prioritized_enemy(state, heap, heap[unit], unit_location) = None
    /\ new_location(state, heap, unit, unit_location) = None
    /\ turn_result' = [full_turn |-> FALSE, winner |-> None]
    /\ unit_locations' = <<>>
    /\ pc' = "returned"
    /\ UNCHANGED <<outside, round_start, driver, heap, initial_state,
                   number_of_elves_in_combat,
                   state, strength_increase, id, result, full_rounds, acted, trials>>

\* lines 407-409, 428-430 and 447-450: no enemy is in range and there is no
\* step to take
SlotIdle ==
    /\ InSlot
    /\ enemies_alive(state, heap, heap[unit])
    /\ ~heap[unit].is_dead
    /\ prioritized_enemy(state, heap, heap[unit], unit_location) = None
    /\ new_location(state, heap, unit, unit_location) = None
    /\ UNCHANGED <<state, heap>>
    /\ NextSlot

\* lines 479-492: every slot was processed
TurnEnd ==
    /\ pc = "slot"
    /\ unit_locations = <<>>
    /\ LET goblins_left == num_combatants_alive(state, heap, "Goblin")
           elves_left == num_combatants_alive(state, heap, "Elf")
       IN  turn_result' =
             IF goblins_left = 0 \/ elves_left = 0
             THEN IF goblins_left = 0
                  THEN [full_turn |-> TRUE, winner |-> Some("Elf")]
                  ELSE [full_turn |-> TRUE, winner |-> Some("Goblin")]
             ELSE [full_turn |-> TRUE, winner |-> None]
    /\ full_rounds' = full_rounds + 1
    /\ pc' = "returned"
    /\ UNCHANGED <<outside, round_start, driver, heap, initial_state,
                   number_of_elves_in_combat, state,
                   strength_increase, id, unit_locations, result, acted, trials>>

\* star_one counting the call of turn that reported the winner
StarOneNext_counting_the_call ==
    /\ pc = "returned"
    /\ driver = "star_one"
    /\ IF turn_result.winner = None
       THEN /\ id' = id + 1
            /\ pc' = "turn"
            /\ UNCHANGED result
       ELSE /\ result' = Some((id + 1) * remaining_health_for_faction(
                                            state, heap, turn_result.winner[1]))
            /\ pc' = "done"
            /\ UNCHANGED id
    /\ UNCHANGED <<outside, round_start, driver, heap, initial_state,
                   number_of_elves_in_combat, state,
                   strength_increase, unit_locations, turn_result, full_rounds,
                   acted, trials>>

(***************************************************************************)
(* star_one                                                                *)
(***************************************************************************)
\* lines 523-534: one element of the iterator has been produced
StarOneNext ==
    /\ pc = "returned"
    /\ driver = "star_one"
    /\ IF turn_result.winner = None
       THEN /\ id' = id + 1
            /\ pc' = "turn"
            /\ UNCHANGED result
       ELSE /\ result' = Some(id * remaining_health_for_faction(
                                      state, heap, turn_result.winner[1]))
            /\ pc' = "done"
            /\ UNCHANGED id
    /\ UNCHANGED <<outside, round_start, driver, heap, initial_state,
                   number_of_elves_in_combat, state,
                   strength_increase, unit_locations, turn_result, full_rounds,
                   acted, trials>>

(***************************************************************************)
(* star_two                                                                *)
(***************************************************************************)
\* the search starting at the strength the units already have
adjusted_strength_from_three == InitialStrength + strength_increase

adjusted_strength == BaseStrength + strength_increase

\* the map the Debug impl prints: one character per Position
to_char(s, h) ==
    [y \in DOMAIN s.grid |-> [x \in DOMAIN s.grid[y] |->
        CASE s.grid[y][x].kind = "Wall" -> "#"
          [] s.grid[y][x].kind = "Open" -> "."
          [] OTHER -> IF h[s.grid[y][x].occupant].unit_type = "Goblin"
                      THEN "G" ELSE "E"]]

\* elves that died, whichever state they belonged to
ElfDeaths(h) ==
    Cardinality({p \in DOMAIN h : h[p].unit_type = "Elf" /\ h[p].is_dead})

\* lines 544-545: the next element of the outer iterator starts
StarTwoTrial ==
    /\ pc = "trial"
    /\ adjusted_strength <= MaxStrength
    /\ LET c == cheat(initial_state, heap, adjusted_strength)
       IN  /\ state' = c.state
           /\ heap' = c.heap
           /\ trials' = Append(trials,
                 [strength |-> adjusted_strength,
                  layout |-> to_char(c.state, c.heap),
                  elf_deaths |-> 0,
                  winner |-> None])
    /\ id' = 0
    /\ full_rounds' = 0
    /\ acted' = {}
    /\ turn_result' = NoResult
    /\ pc' = "turn"
    /\ UNCHANGED <<outside, round_start, driver, initial_state, number_of_elves_in_combat,
                   strength_increase, unit_locations, result>>

\* the trial that has just finished: the elves it lost and the winner the
\* last call of turn reported
CloseTrial ==
    [trials EXCEPT ![Len(trials)] =
        [@ EXCEPT !.elf_deaths = ElfDeaths(heap), !.winner = turn_result.winner]]

\* inner_result without the comparison of the elf count
inner_result_ignoring_deaths ==
    <<IF turn_result.full_turn THEN id + 1 ELSE id, turn_result.winner>>

\* inner_result counting as star_one does
inner_result_uncounted ==
    IF num_combatants_alive(state, heap, "Elf") < number_of_elves_in_combat
    THEN <<id, Some("Goblin")>>
    ELSE <<id, turn_result.winner>>

\* lines 552-557: the element the inner iterator yields for this call of turn
inner_result ==
    IF num_combatants_alive(state, heap, "Elf") < number_of_elves_in_combat
    THEN <<id, Some("Goblin")>>
    ELSE <<IF turn_result.full_turn THEN id + 1 ELSE id, turn_result.winner>>

\* lines 550-575: one element of the inner iterator has been produced
StarTwoNext ==
    /\ pc = "returned"
    /\ driver = "star_two"
    /\ LET inner == inner_result
       IN  IF inner[2] = None
           THEN /\ id' = id + 1
                /\ pc' = "turn"
                /\ UNCHANGED <<strength_increase, result, trials>>
           ELSE IF inner[2] = Some("Goblin")
           THEN /\ strength_increase' = strength_increase + 1
                /\ pc' = "trial"
                /\ trials' = CloseTrial
                /\ UNCHANGED <<id, result>>
           ELSE /\ result' = Some(inner[1] * remaining_health_for_faction(
                                                state, heap, inner[2][1]))
                /\ pc' = "done"
                /\ trials' = CloseTrial
                /\ UNCHANGED <<id, strength_increase>>
    /\ UNCHANGED <<outside, round_start, driver, heap, initial_state,
                   number_of_elves_in_combat, state,
                   unit_locations, turn_result, full_rounds, acted>>

Next ==
    \/ TurnBegin
    \/ SlotHalt
    \/ SlotDead
    \/ SlotAttack
    \/ SlotMove
    \/ SlotIdle
    \/ TurnEnd
    \/ StarOneNext
    \/ StarTwoTrial
    \/ StarTwoNext

Spec == Init /\ [][Next]_vars

TypeOK ==
    /\ driver \in {"star_one", "star_two", "test", "none"}
    /\ pc \in {"trial", "turn", "slot", "returned", "done", "panicked", "test", "idle"}
    /\ \A p \in DOMAIN heap : heap[p].health \in 0..InitialHealth

(***************************************************************************)
(* The unit tests (lines 691-721) parse a map and call the shortest-path   *)
(* functions of the state directly.                                        *)
(***************************************************************************)
\* most cells of a test map that are not Open
MaxBlocked == 3

\* the functions called do not read the type of a unit
TestGlyphs == {"#", ".", "G"}

\* the 3x3 maps with at most MaxBlocked walls and units
TestGrids ==
    {g \in [1..3 -> [1..3 -> TestGlyphs]] :
        Cardinality({c \in (1..3) \X (1..3) : g[c[1]][c[2]] # "."}) <= MaxBlocked}

\* a test that parses no map (lines 723-726)
NoText == <<>>

\* highest coordinate of a location passed to reading_order
MaxCoordinate == 4

TestInit ==
    \E input \in TestGrids \cup {NoText} :
        /\ OtherDaysIdle
        /\ input_text = input
        /\ round_start = None
        /\ driver = "test"
        /\ heap = IF input = NoText THEN <<>> ELSE ParseHeap(input)
        /\ state = IF input = NoText THEN NoState ELSE GameState_from(input)
        /\ initial_state = NoState
        /\ number_of_elves_in_combat = 0
        /\ strength_increase = 0
        /\ id = 0
        /\ unit_locations = <<>>
        /\ turn_result = NoResult
        /\ result = None
        /\ pc = "test"
        /\ full_rounds = 0
        /\ acted = {}
        /\ trials = <<>>
        /\ call = None

\* the locations a caller passes: the cell of a unit or an Open cell
TestCells == {l \in Locations(state) : state.grid[l[2]][l[1]].kind # "Wall"}

\* one call on the freshly parsed state
Called(function, arguments, returned) ==
    /\ call = None
    /\ call' = Some([function |-> function, arguments |-> arguments,
                     returned |-> returned])
    /\ UNCHANGED <<vector_game, list_game, instructions, race,
                   input_text, round_start, driver, heap, initial_state,
                   number_of_elves_in_combat, state, strength_increase, id,
                   unit_locations, turn_result, result, pc, full_rounds, acted,
                   trials>>

TestDistanceGrid ==
    /\ pc = "test"
    /\ state # NoState
    /\ \E from \in TestCells :
          Called("calculate_distance_grid", <<from>>,
                 calculate_distance_grid(state, from))

\* lines 691-721
TestFirstMove ==
    /\ pc = "test"
    /\ state # NoState
    /\ \E unit_position \in TestCells, to \in TestCells :
          Called("first_move_on_shortest_path", <<unit_position, to>>,
                 first_move_on_shortest_path(state, unit_position, to))

\* lines 723-726
TestReadingOrder ==
    /\ pc = "test"
    /\ state = NoState
    /\ \E lhs \in (0..MaxCoordinate) \X (0..MaxCoordinate),
          rhs \in (0..MaxCoordinate) \X (0..MaxCoordinate) :
          Called("reading_order", <<lhs, rhs>>, reading_order(lhs, rhs))

\* lines 181-211, called as the turn and the search call it
TestInRange ==
    /\ pc = "test"
    /\ state # NoState
    /\ \E location \in TestCells, only_open \in BOOLEAN :
          Called("in_range", <<location, only_open>>,
                 in_range(state, location, only_open))

TestNext ==
    \/ TestDistanceGrid
    \/ TestFirstMove
    \/ TestReadingOrder
    \/ TestInRange

TestSpec == TestInit /\ [][TestNext]_vars

(***************************************************************************)
(* Vocabulary of the properties.                                           *)
(***************************************************************************)
Faction == {"Elf", "Goblin"}
Opponent(f) == IF f = "Elf" THEN "Goblin" ELSE "Elf"

\* the locations of the living units of faction f in the registry of s
Living(s, h, f) ==
    {l \in DOMAIN s.combatants :
        h[s.combatants[l]].unit_type = f /\ ~h[s.combatants[l]].is_dead}

RECURSIVE HealthSum(_, _, _)
HealthSum(s, h, L) ==
    IF L = {} THEN 0
    ELSE LET l == CHOOSE m \in L : TRUE
         IN  h[s.combatants[l]].health + HealthSum(s, h, L \ {l})

\* the score the rules define for a finished combat won by f
Score(f) == full_rounds * HealthSum(state, heap, Living(state, heap, f))

StarOneDone == pc = "done" /\ driver = "star_one"
StarTwoDone == pc = "done" /\ driver = "star_two"

(***************************************************************************)
(* C1.  When star_one returns, its value is R * H: R the number of calls   *)
(* of turn that returned the full-round flag true (the last round          *)
(* included when it was a full round), H the health left to the winner.    *)
(***************************************************************************)
C1_StarOneCountsFullRounds ==
    StarOneDone => result = Some(Score(turn_result.winner[1]))

(***************************************************************************)
(* C2.  star_two tries the powers 4, 5, 6, ... in order, each from the      *)
(* original layout, and stops at the first power whose combat completes    *)
(* with zero elf deaths; at every power before it an elf died.             *)
(***************************************************************************)
TrialsInOrder ==
    \A i \in DOMAIN trials :
        /\ trials[i].strength = BaseStrength + i - 1
        /\ trials[i].layout = to_char(initial_state, heap)

Finished(i) == i < Len(trials) \/ pc \in {"trial", "done"}

EarlierTrialsLostAnElf ==
    StarTwoDone =>
        /\ trials # <<>>
        /\ trials[Len(trials)].elf_deaths = 0
        /\ trials[Len(trials)].winner # None
        /\ \A i \in 1..(Len(trials) - 1) : trials[i].elf_deaths >= 1

ElfLost ==
    Cardinality(Living(state, heap, "Elf"))
        < Cardinality(Living(initial_state, heap, "Elf"))

C3_TrialAbandonedOnElfDeath ==
    /\ [](driver = "star_two" /\ pc \in {"turn", "done"} => ~ElfLost)
    /\ [][(driver = "star_two" /\ pc = "returned" /\ ElfLost)
            => /\ pc' = "trial"
               /\ strength_increase' = strength_increase + 1
               /\ result' = None]_vars

\* an elf died in the call of turn that eliminated the last goblin
C3_Witness ==
    /\ driver = "star_two" /\ pc = "returned" /\ ElfLost
    /\ turn_result.winner = Some("Elf")
    /\ Living(state, heap, "Goblin") = {}

(***************************************************************************)
(* C4.  The value star_two returns is R * H by the same formula: H the     *)
(* health of the surviving elves of the final state, R the calls of turn   *)
(* that returned the full-round flag true in the final trial.              *)
(***************************************************************************)
C4_StarTwoScore == StarTwoDone => result = Some(Score("Elf"))

\* the final trial ended with a full round and a positive score
C4_Witness ==
    /\ StarTwoDone /\ turn_result.full_turn
    /\ full_rounds > 1 /\ result # Some(0)

(***************************************************************************)
(* C5.  In every state the Occupied cells of the grid are exactly the keys *)
(* of combatants, and no unit is held at two locations.                    *)
(***************************************************************************)
Injective(f) == \A a, b \in DOMAIN f : f[a] = f[b] => a = b

GridRegistryAgree(s) ==
    /\ {l \in Locations(s) : s.grid[l[2]][l[1]].kind = "Occupied"} = DOMAIN s.combatants
    /\ Injective(s.combatants)
    /\ Injective([l \in DOMAIN s.combatants |-> s.grid[l[2]][l[1]].occupant])

C5_OccupiedCellsAreRegistryKeys ==
    /\ state # NoState => GridRegistryAgree(state)
    /\ initial_state # NoState => GridRegistryAgree(initial_state)

\* a trial state in which a unit has moved and another has died
C5_Witness ==
    /\ driver = "star_two" /\ pc = "slot"
    /\ \E l \in DOMAIN state.combatants : l \notin DOMAIN initial_state.combatants
    /\ Cardinality(DOMAIN state.combatants) < Cardinality(DOMAIN initial_state.combatants)

(***************************************************************************)
(* C6.  In every state the unit an Occupied cell refers to shows the same  *)
(* faction, health, attack power and alive flag as the registry entry of   *)
(* that location.                                                          *)
(***************************************************************************)
C6_CellShowsRegistryUnit ==
    state # NoState =>
        \A l \in DOMAIN state.combatants :
            /\ state.grid[l[2]][l[1]].kind = "Occupied"
            /\ heap[state.grid[l[2]][l[1]].occupant] = heap[state.combatants[l]]

(***************************************************************************)
(* C7.  A trial works on its own copy: the units of the initial state keep *)
(* health 200, attack power 3, their location and their alive flag through *)
(* cheat and every turn, and the state cheat(p) returns has every elf at   *)
(* attack power p, every goblin at 3 and every unit at health 200.         *)
(***************************************************************************)
Pristine(u) == u.health = 200 /\ u.strength = 3 /\ ~u.is_dead

InitialUnitsPristine ==
    driver = "star_two" =>
        \A l \in DOMAIN initial_state.combatants :
            /\ Pristine(heap[initial_state.combatants[l]])
            /\ initial_state.grid[l[2]][l[1]].kind = "Occupied"
            /\ Pristine(heap[initial_state.grid[l[2]][l[1]].occupant])

FreshTrialState ==
    (driver = "star_two" /\ pc = "turn" /\ id = 0) =>
        /\ DOMAIN state.combatants = DOMAIN initial_state.combatants
        /\ \A l \in DOMAIN state.combatants :
              LET u == heap[state.combatants[l]]
                  o == heap[initial_state.combatants[l]]
              IN  /\ u.unit_type = o.unit_type
                  /\ u.health = 200 /\ ~u.is_dead
                  /\ u.strength = IF u.unit_type = "Elf"
                                  THEN trials[Len(trials)].strength ELSE 3

C7_TrialsLeaveInitialStateAlone ==
    /\ []InitialUnitsPristine
    /\ []FreshTrialState
    /\ [][initial_state' = initial_state]_vars

\* a later trial in which units have been damaged and one has moved
C7_Witness ==
    /\ driver = "star_two" /\ pc = "slot" /\ strength_increase >= 1
    /\ \E l \in DOMAIN state.combatants : heap[state.combatants[l]].health < 200
    /\ \E l \in DOMAIN state.combatants : l \notin DOMAIN initial_state.combatants

(***************************************************************************)
(* C8.  The slots of a round are the units at the locations they held when *)
(* the round began, in reading order; no unit has two slots in a round;   *)
(* the slot of a unit killed earlier in the round changes nothing.         *)
(***************************************************************************)
RowMajorBefore(l, m) == l[2] < m[2] \/ (l[2] = m[2] /\ l[1] < m[1])

SlotsInReadingOrder ==
    pc = "slot" =>
        /\ \A i, j \in DOMAIN unit_locations :
              i < j => RowMajorBefore(unit_locations[i][1], unit_locations[j][1])
        /\ \A i \in DOMAIN unit_locations : unit_locations[i][2] \notin acted
        /\ (unit_locations # <<>> /\ ~heap[unit].is_dead) =>
              /\ unit_location \in DOMAIN state.combatants
              /\ state.combatants[unit_location] = unit

C8_OneSlotPerUnitInReadingOrder ==
    /\ []SlotsInReadingOrder
    /\ [][(pc = "turn" /\ pc' = "slot")
            => Range(unit_locations')
                 = {<<l, state.combatants[l]>> : l \in DOMAIN state.combatants}]_vars
    /\ [][(InSlot /\ heap[unit].is_dead) => (state' = state /\ heap' = heap)]_vars

\* the slot of a unit that was killed earlier in the round comes up while
\* its enemies live on
C8_Witness ==
    /\ InSlot /\ heap[unit].is_dead /\ acted # {}
    /\ Living(state, heap, Opponent(heap[unit].unit_type)) # {}

(***************************************************************************)
(* C9.  When a slot comes up and no enemy of its unit is alive, turn       *)
(* returns at once with the flag false and the faction that still has      *)
(* living units as winner; the call changes no cell and no unit and        *)
(* processes no later slot.                                                *)
(***************************************************************************)
C9_HaltsWhenNoEnemyIsLeft ==
    /\ [](pc = "returned" => unit_locations = <<>>)
    /\ [][(InSlot /\ Living(state, heap, Opponent(heap[unit].unit_type)) = {})
            => /\ pc' = "returned"
               /\ unit_locations' = <<>>
               /\ turn_result'.full_turn = FALSE
               /\ turn_result'.winner # None
               /\ Living(state', heap', turn_result'.winner[1]) # {}
               /\ Living(state', heap', Opponent(turn_result'.winner[1])) = {}
               /\ state' = state
               /\ heap' = heap]_vars

\* turn halted in the middle of a round after a kill
C9_Witness ==
    /\ pc = "returned" /\ ~turn_result.full_turn /\ turn_result.winner # None
    /\ acted # {}
    /\ \E p \in DOMAIN heap : heap[p].is_dead

(***************************************************************************)
(* C10.  A faction turn reports as winner has a living unit in the         *)
(* registry and its opponent has none; a full round that leaves both       *)
(* factions alive reports no winner.                                       *)
(***************************************************************************)
C10_WinnerLivesLoserDoesNot ==
    pc = "returned" =>
        /\ turn_result.winner # None =>
              /\ Living(state, heap, turn_result.winner[1]) # {}
              /\ Living(state, heap, Opponent(turn_result.winner[1])) = {}
        /\ (turn_result.full_turn /\ Living(state, heap, "Elf") # {}
                                  /\ Living(state, heap, "Goblin") # {})
              => turn_result.winner = None

(***************************************************************************)
(* Vocabulary of the properties about one slot of a round.                 *)
(***************************************************************************)
\* l and m are orthogonal neighbours
Adjacent(l, m) ==
    \/ l[1] = m[1] /\ l[2] - m[2] \in {-1, 1}
    \/ l[2] = m[2] /\ l[1] - m[1] \in {-1, 1}

\* the locations of the living enemies of faction f next to l
EnemiesNextTo(s, h, f, l) == {m \in Living(s, h, Opponent(f)) : Adjacent(l, m)}

\* the keys under which the registry of s holds pointer p
KeysOf(s, p) == {l \in DOMAIN s.combatants : s.combatants[l] = p}

CellAt(s, l) == s.grid[l[2]][l[1]]

\* the Open cells of s next to l
OpenNextTo(s, l) == {m \in Locations(s) : Adjacent(l, m) /\ CellAt(s, m).kind = "Open"}

\* the slot of a living unit comes up
LivingSlot == InSlot /\ ~heap[unit].is_dead

\* ... and a living enemy stands next to it
InMelee ==
    /\ LivingSlot
    /\ EnemiesNextTo(state, heap, heap[unit].unit_type, unit_location) # {}

\* the enemies the slot's unit has next to location l lost health in the step
Struck(l) ==
    {e \in EnemiesNextTo(state, heap, heap[unit].unit_type, l) :
        heap'[state.combatants[e]].health < heap[state.combatants[e]].health}

(***************************************************************************)
(* C11.  A living unit whose slot comes up while a living enemy stands     *)
(* next to it does not move in that slot: it is in the registry under the  *)
(* same single key and its grid cell is the same after the slot as before; *)
(* it attacks one of the enemies next to it.                               *)
(***************************************************************************)
C11_UnitInRangeStaysPut ==
    [][InMelee =>
         /\ KeysOf(state, unit) = {unit_location}
         /\ KeysOf(state', unit) = {unit_location}
         /\ CellAt(state, unit_location).kind = "Occupied"
         /\ CellAt(state', unit_location) = CellAt(state, unit_location)
         /\ Struck(unit_location) # {}]_vars

\* a unit in range of an enemy that has an Open cell to step to
C11_Witness == InMelee /\ OpenNextTo(state, unit_location) # {}

(***************************************************************************)
(* C12.  The unit damaged in a slot is one living unit of the faction      *)
(* opposing the slot's unit, next to the place where the slot's unit       *)
(* stands after its move if it made one; it has the lowest health of the   *)
(* enemies next to that place and, of those with that health, is the       *)
(* first in reading order.  No unit of the attacker's faction is damaged.  *)
(***************************************************************************)
\* the pointers whose unit lost health in the step
Hurt == {p \in DOMAIN heap : heap'[p].health < heap[p].health}

\* where the registry of s holds pointer p
StandsAt(s, p) == CHOOSE l \in DOMAIN s.combatants : s.combatants[l] = p

HealthAt(e) == heap[state.combatants[e]].health

\* e is the enemy the rules single out among the enemies E
Weakest(e, E) ==
    /\ e \in E
    /\ \A o \in E \ {e} :
          \/ HealthAt(e) < HealthAt(o)
          \/ HealthAt(e) = HealthAt(o) /\ RowMajorBefore(e, o)

C12_WeakestAdjacentEnemyIsHit ==
    [][InSlot =>
         \A p \in Hurt :
            /\ Hurt = {p}
            /\ ~heap[unit].is_dead
            /\ heap[p].unit_type = Opponent(heap[unit].unit_type)
            /\ ~heap[p].is_dead
            /\ KeysOf(state, p) # {}
            /\ KeysOf(state', unit) # {}
            /\ Weakest(StandsAt(state, p),
                       EnemiesNextTo(state, heap, heap[unit].unit_type,
                                     StandsAt(state', unit)))]_vars

\* the unit has two enemies next to it, and the one with less health is the
\* later of the two in reading order
C12_Witness ==
    /\ InMelee
    /\ \E e, o \in EnemiesNextTo(state, heap, heap[unit].unit_type, unit_location) :
          HealthAt(e) < HealthAt(o) /\ RowMajorBefore(o, e)

(***************************************************************************)
(* C13.  An attack takes the attacker's attack power off the health of     *)
(* the target, stopping at 0.  The target leaves the registry and its      *)
(* cell turns Open in the same step exactly when its health has become 0;  *)
(* otherwise it keeps its key and its cell.  No other unit changes, and    *)
(* every other unit but a slot's unit that stepped keeps its key and cell. *)
(***************************************************************************)
Floored(n) == IF n < 0 THEN 0 ELSE n

\* the step leaves the unit at l where and as it was
Untouched(l) ==
    /\ l \in DOMAIN state'.combatants
    /\ state'.combatants[l] = state.combatants[l]
    /\ CellAt(state', l) = CellAt(state, l)

\* what the step did to the unit at e that pointer p holds
HitLanded(p, e) ==
    /\ heap'[p].health = Floored(heap[p].health - heap[unit].strength)
    /\ \A q \in DOMAIN heap \ {p} : heap'[q] = heap[q]
    /\ DOMAIN heap' = DOMAIN heap
    /\ IF heap'[p].health = 0
       THEN /\ e \notin DOMAIN state'.combatants
            /\ KeysOf(state', p) = {}
            /\ CellAt(state', e) = Open
       ELSE Untouched(e)
    /\ \A l \in DOMAIN state.combatants \ {e, unit_location} : Untouched(l)
    /\ DOMAIN state'.combatants \ {StandsAt(state', unit)}
         = DOMAIN state.combatants \ ({unit_location}
              \cup IF heap'[p].health = 0 THEN {e} ELSE {})
    /\ InMelee => Untouched(unit_location)

C13_AttackTakesPowerOffTarget ==
    [][InSlot => \A p \in Hurt : HitLanded(p, StandsAt(state, p))]_vars

\* the enemy about to be hit has less health left than the attacker's power
C13_Witness ==
    /\ InMelee
    /\ \E e \in EnemiesNextTo(state, heap, heap[unit].unit_type, unit_location) :
          /\ Weakest(e, EnemiesNextTo(state, heap, heap[unit].unit_type, unit_location))
          /\ HealthAt(e) < heap[unit].strength
    /\ Cardinality(DOMAIN state.combatants) >= 3

(***************************************************************************)
(* C14.  Every unit in the registry is alive with health from 1 to 200;    *)
(* no health is negative; while a combat runs no unit gains health; a      *)
(* unit at health 0 is dead and is neither in the registry nor in a cell   *)
(* of the grid, and stays so; the number of living units of a faction      *)
(* never grows during a combat.                                            *)
(***************************************************************************)
RegistryUnitsAlive ==
    \A l \in DOMAIN state.combatants :
        /\ ~heap[state.combatants[l]].is_dead
        /\ heap[state.combatants[l]].health \in 1..200

\* the cells of s that hold pointer p
CellsOf(s, p) == {l \in OccupiedCells(s) : CellAt(s, l).occupant = p}

DeadUnitsAreGone ==
    \A p \in DOMAIN heap :
        /\ heap[p].health >= 0
        /\ heap[p].health = 0 <=> heap[p].is_dead
        /\ heap[p].is_dead => (KeysOf(state, p) = {} /\ CellsOf(state, p) = {})

\* a step of the combat under way: not the start of the next trial
CombatStep == pc # "trial"

C14_HealthOnlyFallsAndDeathIsFinal ==
    /\ [](state # NoState => RegistryUnitsAlive)
    /\ []DeadUnitsAreGone
    /\ [][CombatStep =>
            /\ DOMAIN heap' = DOMAIN heap
            /\ \A p \in DOMAIN heap :
                  /\ heap'[p].health <= heap[p].health
                  /\ heap[p].is_dead => heap'[p] = heap[p]
            /\ \A f \in Faction :
                  Cardinality(Living(state', heap', f))
                     <= Cardinality(Living(state, heap, f))]_vars

\* the combat goes on after a death: the slot of a damaged unit comes up
\* while both factions have living units and a unit of the combat is dead
C14_Witness ==
    /\ LivingSlot
    /\ heap[unit].health < 200
    /\ Living(state, heap, "Elf") # {} /\ Living(state, heap, "Goblin") # {}
    /\ \E p \in acted : heap[p].is_dead

(***************************************************************************)
(* C15.  A unit that steps in its slot and then has a living enemy next    *)
(* to its new location attacks in the same slot, and the unit it damages   *)
(* is one of the enemies next to the new location; a unit that steps and   *)
(* has no enemy next to its new location damages nobody.                   *)
(***************************************************************************)
\* the slot's unit is at another location after the step
Stepped == LivingSlot /\ KeysOf(state', unit) # {unit_location}

C15_AttackFollowsTheStep ==
    [][Stepped =>
         /\ KeysOf(state', unit) # {}
         /\ LET E == EnemiesNextTo(state, heap, heap[unit].unit_type,
                                   StandsAt(state', unit))
            IN  /\ E # {} => Struck(StandsAt(state', unit)) # {}
                /\ \A p \in Hurt : KeysOf(state, p) # {} /\ StandsAt(state, p) \in E
                /\ E = {} => heap' = heap]_vars

\* first round of a trial, nobody has been hit yet: a unit that acted has
\* left its starting cell, and the unit whose slot is up is about to step
\* next to an enemy
C15_Witness ==
    /\ LivingSlot /\ ~InMelee
    /\ driver = "star_two" /\ id = 0
    /\ \A l \in DOMAIN state.combatants : heap[state.combatants[l]].health = 200
    /\ \E p \in acted :
          KeysOf(state, p) # {} /\ StandsAt(state, p) \notin DOMAIN initial_state.combatants
    /\ \E to \in OpenNextTo(state, unit_location) :
          /\ new_location(state, heap, unit, unit_location) = Some(to)
          /\ EnemiesNextTo(state, heap, heap[unit].unit_type, to) # {}

(***************************************************************************)
(* C16.  A death takes effect within the round.  While the slot of a unit  *)
(* killed earlier in the round is still to come, the unit is in no        *)
(* registry key and its former cell is Open or holds a living unit that    *)
(* stepped into it; no later slot damages the dead unit; and a unit that   *)
(* has no enemy in range steps when the former cell, next to it, is Open   *)
(* and next to a living enemy.                                             *)
(***************************************************************************)
\* the location and pointer of the slots to come whose unit is dead
DeadToCome == {lp \in Range(unit_locations) : heap[lp[2]].is_dead}

FormerCellsAreFree ==
    pc = "slot" =>
        \A lp \in DeadToCome :
            /\ KeysOf(state, lp[2]) = {}
            /\ IF lp[1] \in DOMAIN state.combatants
               THEN /\ state.combatants[lp[1]] \in acted
                    /\ ~heap[state.combatants[lp[1]]].is_dead
                    /\ CellAt(state, lp[1]).kind = "Occupied"
               ELSE CellAt(state, lp[1]) = Open

C16_DeathTakesEffectInTheRound ==
    /\ []FormerCellsAreFree
    /\ [][LivingSlot =>
            \A lp \in DeadToCome :
                /\ heap'[lp[2]] = heap[lp[2]]
                /\ (/\ ~InMelee
                    /\ lp[1] \in OpenNextTo(state, unit_location)
                    /\ EnemiesNextTo(state, heap, heap[unit].unit_type, lp[1]) # {})
                   => /\ Stepped
                      /\ Struck(StandsAt(state', unit)) # {}]_vars

\* the slot of a unit killed in this round comes up, and a unit that has
\* acted since stands in the cell where the dead unit was
C16_Witness ==
    /\ InSlot /\ heap[unit].is_dead
    /\ unit_location \in DOMAIN state.combatants
    /\ state.combatants[unit_location] \in acted

(***************************************************************************)
(* Paths through Open cells, by their definition.                          *)
(***************************************************************************)
\* B and the Open cells one step from a cell of B
Grow(s, B) ==
    B \cup {m \in Locations(s) :
               CellAt(s, m).kind = "Open" /\ \E l \in B : Adjacent(l, m)}

\* the cells a path from B reaches, every step onto an Open cell; N is B grown
RECURSIVE FloodOn(_, _, _)
FloodOn(s, B, N) == IF N = B THEN B ELSE FloodOn(s, N, Grow(s, N))

Flood(s, B) == FloodOn(s, B, Grow(s, B))

\* B holds the cells within k steps and N is B grown: the number of steps to l
RECURSIVE SeekOn(_, _, _, _, _)
SeekOn(s, B, N, l, k) ==
    IF l \in B THEN k
    ELSE IF N = B THEN NoDistance
    ELSE SeekOn(s, N, Grow(s, N), l, k + 1)

Seek(s, B, l, k) == SeekOn(s, B, Grow(s, B), l, k)

\* the length of a shortest path from `from` to l whose cells after `from`
\* are Open; NoDistance when there is none
PathLength(s, from, l) == Seek(s, {from}, l, 0)

\* the Open cells next to a living enemy of faction f that a unit at l reaches
Goals(s, h, f, l) ==
    {m \in Flood(s, {l}) :
        CellAt(s, m).kind = "Open" /\ EnemiesNextTo(s, h, f, m) # {}}

(***************************************************************************)
(* C17.  When the slot of a living unit comes up, no enemy stands next to  *)
(* it and it reaches no Open cell next to a living enemy through Open      *)
(* cells, the slot changes neither the grid nor the registry nor any unit; *)
(* while an enemy is alive the round goes on with the next slot.           *)
(***************************************************************************)
NothingToDo ==
    /\ LivingSlot /\ ~InMelee
    /\ Goals(state, heap, heap[unit].unit_type, unit_location) = {}

C17_NoReachableTargetNoChange ==
    [][NothingToDo =>
         /\ state' = state
         /\ heap' = heap
         /\ Living(state, heap, Opponent(heap[unit].unit_type)) # {}
               => /\ pc' = "slot"
                  /\ unit_locations' = Tail(unit_locations)
                  /\ turn_result' = turn_result]_vars

\* a unit with an Open cell next to it and a living enemy it cannot reach
C17_Witness ==
    /\ NothingToDo
    /\ Living(state, heap, Opponent(heap[unit].unit_type)) # {}
    /\ OpenNextTo(state, unit_location) # {}

(***************************************************************************)
(* C18.  The destination of a unit that steps is an Open cell next to a    *)
(* living enemy that the unit reaches through Open cells: none of these    *)
(* cells is nearer to the unit, and of those as near it is the first in    *)
(* reading order.  The step the unit takes starts a shortest path to it.   *)
(***************************************************************************)
\* d is the destination the rules give the unit at l among the cells G
Destination(s, l, d, G) ==
    /\ d \in G
    /\ \A o \in G \ {d} :
          \/ PathLength(s, l, d) < PathLength(s, l, o)
          \/ PathLength(s, l, d) = PathLength(s, l, o) /\ RowMajorBefore(d, o)

\* the target of the pair turn takes from possible_first_moves
ChosenTarget ==
    first_pair(possible_first_moves(state, heap, unit, unit_location))[1]

C18_NearestTargetFirstInReadingOrder ==
    [][Stepped =>
         /\ possible_first_moves(state, heap, unit, unit_location) # {}
         /\ Destination(state, unit_location, ChosenTarget,
                        Goals(state, heap, heap[unit].unit_type, unit_location))
         /\ KeysOf(state', unit) # {}
         /\ StandsAt(state', unit) \in OpenNextTo(state, unit_location)
         /\ PathLength(state, StandsAt(state', unit), ChosenTarget)
              = PathLength(state, unit_location, ChosenTarget) - 1]_vars

\* the unit about to step has two nearest cells to choose from and a
\* farther one that comes before them in reading order
C18_Witness ==
    /\ LivingSlot /\ ~InMelee
    /\ \E a, b, c \in Goals(state, heap, heap[unit].unit_type, unit_location) :
          /\ a # b
          /\ PathLength(state, unit_location, a) = PathLength(state, unit_location, b)
          /\ PathLength(state, unit_location, a) < PathLength(state, unit_location, c)
          /\ RowMajorBefore(c, a) /\ RowMajorBefore(c, b)
          /\ \A o \in Goals(state, heap, heap[unit].unit_type, unit_location) :
                PathLength(state, unit_location, a) <= PathLength(state, unit_location, o)

(***************************************************************************)
(* C19.  first_move_on_shortest_path(u, t) returns the Open neighbour of u *)
(* with the shortest path to t, a neighbour that is t itself counting as   *)
(* distance 0, and the first in reading order of the neighbours that share *)
(* that distance; it returns no step when no path leads from an Open       *)
(* neighbour of u to t.                                                    *)
(***************************************************************************)
CalledFunction(f) == call # None /\ call[1].function = f

\* the length of a shortest path between n and t whose cells other than t
\* are Open
DistanceTo(n, t) == PathLength(state, t, n)

\* the Open neighbours of u with a path to t
Approaches(u, t) == {n \in OpenNextTo(state, u) : DistanceTo(n, t) # NoDistance}

\* step is the Option the property gives for u and t
FirstMove(u, t, step) ==
    IF Approaches(u, t) = {} THEN step = None
    ELSE /\ step # None
         /\ step[1] \in Approaches(u, t)
         /\ \A o \in Approaches(u, t) \ {step[1]} :
               \/ DistanceTo(step[1], t) < DistanceTo(o, t)
               \/ DistanceTo(step[1], t) = DistanceTo(o, t) /\ RowMajorBefore(step[1], o)

C19_FirstMoveIsNearestNeighbour ==
    CalledFunction("first_move_on_shortest_path")
        => FirstMove(call[1].arguments[1], call[1].arguments[2], call[1].returned)

\* called for a unit with two Open neighbours equally near to t and a third
\* that is farther from t and comes before them in reading order
C19_Witness ==
    /\ CalledFunction("first_move_on_shortest_path")
    /\ CellAt(state, call[1].arguments[1]).kind = "Occupied"
    /\ call[1].returned # None
    /\ \E b, c \in Approaches(call[1].arguments[1], call[1].arguments[2]) :
          /\ b # call[1].returned[1]
          /\ DistanceTo(b, call[1].arguments[2])
               = DistanceTo(call[1].returned[1], call[1].arguments[2])
          /\ DistanceTo(b, call[1].arguments[2]) < DistanceTo(c, call[1].arguments[2])
          /\ RowMajorBefore(c, call[1].returned[1])

(***************************************************************************)
(* C20.  calculate_distance_grid(from) has 0 at `from`, an Open cell or    *)
(* the cell of a unit; at every Open cell that a path through Open cells   *)
(* reaches from `from` it has the length of a shortest such path; it has   *)
(* no distance at a Wall, at the cell of a unit other than `from`, and at  *)
(* an Open cell no such path reaches.                                      *)
(***************************************************************************)
\* grid is the distance grid the property gives for `from`
DistancesFrom(from, grid) ==
    /\ DOMAIN grid = Locations(state)
    /\ grid[from] = 0
    /\ \A l \in Locations(state) \ {from} :
          IF CellAt(state, l).kind = "Open"
          THEN grid[l] = PathLength(state, from, l) /\ grid[l] # 0
          ELSE grid[l] = NoDistance

C20_DistanceGridIsShortestOpenPath ==
    CalledFunction("calculate_distance_grid")
        => DistancesFrom(call[1].arguments[1], call[1].returned)

\* called from the cell of a unit on a map with another unit, an Open cell
\* out of reach and an Open cell at four steps
C20_Witness ==
    /\ CalledFunction("calculate_distance_grid")
    /\ CellAt(state, call[1].arguments[1]).kind = "Occupied"
    /\ Cardinality(OccupiedCells(state)) >= 2
    /\ \E l \in Locations(state) :
          CellAt(state, l).kind = "Open" /\ call[1].returned[l] = NoDistance
    /\ \E l \in Locations(state) : call[1].returned[l] >= 3

(***************************************************************************)
(* C21.  On one state, for Open cells a and b, the distance the grid       *)
(* computed from a has at b is the distance the grid computed from b has   *)
(* at a, and the one is absent exactly when the other is.                  *)
(***************************************************************************)
OpenCells(s) == {l \in Locations(s) : CellAt(s, l).kind = "Open"}

C21_DistanceIsSymmetric ==
    (/\ CalledFunction("calculate_distance_grid")
     /\ call[1].arguments[1] \in OpenCells(state))
        => \A b \in OpenCells(state) :
              call[1].returned[b]
                 = calculate_distance_grid(state, b)[call[1].arguments[1]]

\* called from an Open cell that has an Open cell three or more steps away
\* and an Open cell out of reach, on a map with a unit
C21_Witness ==
    /\ CalledFunction("calculate_distance_grid")
    /\ call[1].arguments[1] \in OpenCells(state)
    /\ OccupiedCells(state) # {}
    /\ \E b \in OpenCells(state) : call[1].returned[b] >= 3
    /\ \E b \in OpenCells(state) : call[1].returned[b] = NoDistance

(***************************************************************************)
(* C22.  reading_order is a strict total order that compares the row (y)   *)
(* first and the column (x) second: of two different locations exactly     *)
(* one is Less than the other, a location compares Equal to itself only,   *)
(* Less is transitive, and a location in a smaller row is Less whatever    *)
(* the columns are, as (2,3) is Less than (1,4).                           *)
(***************************************************************************)
Coordinates == (0..MaxCoordinate) \X (0..MaxCoordinate)

\* r is what the order gives for a and b
RowThenColumn(a, b, r) ==
    /\ r \in {"Less", "Equal", "Greater"}
    /\ r = "Equal" <=> a = b
    /\ r = "Less" <=> reading_order(b, a) = "Greater"
    /\ r = "Greater" <=> reading_order(b, a) = "Less"
    /\ r = "Less" <=> (a[2] < b[2] \/ (a[2] = b[2] /\ a[1] < b[1]))
    /\ \A c \in Coordinates :
          (r = "Less" /\ reading_order(b, c) = "Less") => reading_order(a, c) = "Less"

C22_ReadingOrderIsRowMajor ==
    CalledFunction("reading_order")
        => RowThenColumn(call[1].arguments[1], call[1].arguments[2], call[1].returned)

\* the comparison the test makes
C22_Witness ==
    /\ CalledFunction("reading_order")
    /\ call[1].arguments = << <<2, 3>>, <<1, 4>> >>
    /\ call[1].returned = "Less"

(***************************************************************************)
(* C23.  The combat does not depend on the order in which the registry is  *)
(* iterated: whatever that order, the snapshot a round starts with is the  *)
(* one taken, the step of a living unit with no enemy next to it is the    *)
(* one taken, and the score is the one returned.                           *)
(***************************************************************************)
\* the position of the slot's unit after the slot, given the step computed
StepTaken(to) ==
    IF to = None
    THEN state' = state
    ELSE KeysOf(state', unit) = {to[1]}

C23_IterationOrderIsImmaterial ==
    /\ [][(pc = "turn" /\ pc' = "slot") =>
             \A keys \in IterationOrders(state) :
                unit_locations' = snapshot_in_order(state, keys)]_vars
    /\ [][(/\ LivingSlot /\ ~InMelee
           /\ Living(state, heap, Opponent(heap[unit].unit_type)) # {}) =>
             \A keys \in IterationOrders(state) :
                /\ new_location_in_order(state, heap, unit, unit_location, keys)
                      = new_location(state, heap, unit, unit_location)
                /\ StepTaken(new_location_in_order(state, heap, unit,
                                                   unit_location, keys))]_vars
    /\ [][(pc = "returned" /\ pc' = "done") =>
             \A keys \in IterationOrders(state) :
                result' = Some((IF driver = "star_one" THEN id ELSE inner_result[1])
                                  * remaining_health_in_order(
                                        state, heap, turn_result.winner[1], keys))]_vars

\* a unit whose nearest cells next to two different enemies are equally far
\* and call for different first steps
C23_Witness ==
    /\ LivingSlot /\ ~InMelee
    /\ \E a, b \in Goals(state, heap, heap[unit].unit_type, unit_location) :
          /\ EnemiesNextTo(state, heap, heap[unit].unit_type, a)
                # EnemiesNextTo(state, heap, heap[unit].unit_type, b)
          /\ PathLength(state, unit_location, a) = PathLength(state, unit_location, b)
          /\ \A o \in Goals(state, heap, heap[unit].unit_type, unit_location) :
                PathLength(state, unit_location, a) <= PathLength(state, unit_location, o)
          /\ first_move_on_shortest_path(state, unit_location, a)
                # first_move_on_shortest_path(state, unit_location, b)

(***************************************************************************)
(* C24.  star_one returns on every grid: the calls of turn go on until one *)
(* reports a winner.  turn reads nothing but the grid, the registry and    *)
(* the units, so a call that reports no winner and leaves all three as it  *)
(* found them is followed by calls that do the same, without end; star_one *)
(* returning on every grid therefore needs every call of turn that reports *)
(* no winner to change the combat.                                         *)
(***************************************************************************)
\* the call of turn that has returned changed nothing
RoundWithoutEffect ==
    /\ pc = "returned"
    /\ round_start = Some([state |-> state, heap |-> heap])

C24_UndecidedRoundsChangeTheCombat ==
    (driver = "star_one" /\ pc = "returned" /\ turn_result.winner = None)
        => ~RoundWithoutEffect

(***************************************************************************)
(* C25.  A map with a character other than '#', '.', 'G' and 'E' makes     *)
(* GameState::from panic: there is no game state, no call of turn and no   *)
(* score, and nothing follows.                                             *)
(***************************************************************************)
\* the rows of the text where a character is none of the four glyphs
MalformedRows ==
    {y \in DOMAIN input_text :
        \E x \in DOMAIN input_text[y] : input_text[y][x] \notin {"#", ".", "G", "E"}}

C25_MalformedMapPanics ==
    (driver # "test" /\ MalformedRows # {}) =>
        /\ pc = "panicked"
        /\ state = NoState /\ initial_state = NoState /\ heap = <<>>
        /\ round_start = None /\ unit_locations = <<>> /\ acted = {}
        /\ id = 0 /\ full_rounds = 0 /\ turn_result = NoResult
        /\ trials = <<>> /\ result = None

\* the offending character comes after a row of glyphs
C25_Witness ==
    /\ pc = "panicked"
    /\ MalformedRows = {2}

(***************************************************************************)
(* src/day09.rs: the marble game, once on a Vec (solve) and once on a      *)
(* circular doubly linked list of Rc<RefCell<Node>> (solve_efficient).     *)
(* Both loops are followed marble by marble, solve first.                  *)
(***************************************************************************)
\* most players and highest last marble of an enumerated game; marble 92
\* is the first that has solve count back past the start of the Vec
MaxPlayers == 3
MaxMarbles == 92
\* usize::max_value() of the model: the integers of the checker are narrower
\* than 64 bits
UsizeMax == 1073741823
\* every 23rd marble is kept
ScoringMarble == 23
\* the marble taken is 7 counter-clockwise
TakeDistance == 7

\* the first pair of arguments of the tests (lines 216 and 226)
TestGame == <<9, 25>>

\* no combat is running
CombatIdle ==
    /\ call = <<>> /\ input_text = <<>> /\ round_start = <<>>
    /\ driver = "none" /\ heap = <<>> /\ initial_state = NoState
    /\ number_of_elves_in_combat = 0 /\ state = NoState /\ strength_increase = 0
    /\ id = 0 /\ unit_locations = <<>> /\ turn_result = NoResult /\ result = <<>>
    /\ pc = "idle" /\ full_rounds = 0 /\ acted = {} /\ trials = <<>>

combat == <<call, input_text, round_start, driver, heap, initial_state,
            number_of_elves_in_combat, state, strength_increase, id, unit_locations,
            turn_result, result, pc, full_rounds, acted, trials>>

\* Vec::insert and Vec::remove; index counts from 0
VecInsert(v, index, element) ==
    SubSeq(v, 1, index) \o <<element>> \o SubSeq(v, index + 1, Len(v))

VecRemove(v, index) == SubSeq(v, 1, index) \o SubSeq(v, index + 2, Len(v))

\* usize::overflowing_sub: the wrapped difference and whether it wrapped
overflowing_sub(lhs, rhs) ==
    IF lhs >= rhs THEN <<lhs - rhs, FALSE>> ELSE <<(lhs - rhs) + (UsizeMax + 1), TRUE>>

\* scores[index] += points
AddScore(scores, index, points) ==
    [scores EXCEPT ![index + 1] = @ + points]

\* into_iter().max().unwrap()
RECURSIVE MaxOf(_)
MaxOf(scores) ==
    IF Len(scores) = 1 THEN scores[1]
    ELSE LET rest == MaxOf(Tail(scores))
         IN  IF scores[1] > rest THEN scores[1] ELSE rest

\* lines 152-156
solve_start(num_players, last_marble_points) ==
    [num_players |-> num_players, last_marble_points |-> last_marble_points,
     scores |-> [i \in 1..num_players |-> 0], marbles |-> <<0>>, current_idx |-> 0,
     current_player_idx |-> 0, marble_score |-> 1, pc |-> "loop", returned |-> <<>>]

\* lines 167-172
seven_counter_clockwise(marbles, current_idx) ==
    LET difference == overflowing_sub(current_idx, TakeDistance)
    IN  IF ~difference[2] THEN difference[1]
        ELSE Len(marbles) - ((UsizeMax - difference[1]) + 1)

\* lines 159-164: a marble that is placed
solve_place(g) ==
    LET insert_at == (g.current_idx + 1) % Len(g.marbles)
    IN  [g EXCEPT !.current_idx = insert_at + 1,
                  !.marbles = VecInsert(g.marbles, insert_at + 1, g.marble_score)]

\* lines 166-176: a marble that is kept; an index outside the Vec panics
solve_keep(g, index) ==
    IF index < 0 \/ index >= Len(g.marbles)
    THEN [g EXCEPT !.pc = "panicked"]
    ELSE [g EXCEPT !.scores = AddScore(g.scores, g.current_player_idx,
                                       g.marble_score + g.marbles[index + 1]),
                   !.marbles = VecRemove(g.marbles, index),
                   !.current_idx = index]

\* lines 158-179: one pass of the loop
solve_marble(g) ==
    LET after == IF g.marble_score % ScoringMarble # 0
                 THEN solve_place(g)
                 ELSE solve_keep(g, seven_counter_clockwise(g.marbles, g.current_idx))
    IN  IF after.pc = "panicked" THEN after
        ELSE [after EXCEPT
                 !.current_player_idx = (g.current_player_idx + 1) % Len(g.scores),
                 !.marble_score = g.marble_score + 1]

\* Node::new (lines 13-28) at pointer p
Node_new(nodes, p, value) ==
    [q \in DOMAIN nodes \cup {p} |->
        IF q = p THEN [value |-> value, next |-> p, previous |-> p] ELSE nodes[q]]

\* `link` followed `times` times from p
RECURSIVE Follow(_, _, _, _)
Follow(nodes, p, link, times) ==
    IF times <= 0 THEN p ELSE Follow(nodes, nodes[p][link], link, times - 1)

\* the walk going one node too far
counter_clockwise_too_far(nodes, self, distance) ==
    Follow(nodes, nodes[self].previous, "previous", distance)

\* lines 52-71 and 73-93
clockwise(nodes, self, distance) ==
    Follow(nodes, nodes[self].next, "next", distance - 1)

counter_clockwise(nodes, self, distance) ==
    Follow(nodes, nodes[self].previous, "previous", distance - 1)

\* lines 95-112; the node is freed when its last pointer goes
remove(nodes, self) ==
    LET previous == nodes[self].previous
        next     == nodes[self].next
        relinked == [[nodes EXCEPT ![previous].next = next]
                        EXCEPT ![next].previous = previous]
    IN  [q \in DOMAIN nodes \ {self} |-> relinked[q]]

\* lines 114-130, the new node at pointer new
insert_after(nodes, node, value, new) ==
    LET next == nodes[node].next
    IN  [[[[Node_new(nodes, new, value)
               EXCEPT ![node].next = new]
               EXCEPT ![next].previous = new]
               EXCEPT ![new].previous = node]
               EXCEPT ![new].next = next]

\* lines 186-188; pointers are numbered as they are allocated
solve_efficient_start(num_players, last_marble_points) ==
    [num_players |-> num_players, last_marble_points |-> last_marble_points,
     scores |-> [i \in 1..num_players |-> 0], current_player_idx |-> 0,
     nodes |-> Node_new(<<>>, 1, 0), allocated |-> 1, current |-> 1,
     marble_score |-> 1, pc |-> "loop", returned |-> <<>>]

\* lines 191-196
solve_efficient_place(g) ==
    [g EXCEPT !.nodes = insert_after(g.nodes, clockwise(g.nodes, g.current, 1),
                                     g.marble_score, g.allocated + 1),
              !.allocated = g.allocated + 1,
              !.current = g.allocated + 1]

\* lines 198-201
solve_efficient_keep(g, node) ==
    [g EXCEPT !.scores = AddScore(g.scores, g.current_player_idx,
                                  g.marble_score + g.nodes[node].value),
              !.current = g.nodes[node].next,
              !.nodes = remove(g.nodes, node)]

\* lines 190-204: one pass of the loop
solve_efficient_marble(g) ==
    LET after == IF g.marble_score % ScoringMarble # 0
                 THEN solve_efficient_place(g)
                 ELSE solve_efficient_keep(
                          g, counter_clockwise(g.nodes, g.current, TakeDistance))
    IN  [after EXCEPT
            !.current_player_idx = (g.current_player_idx + 1) % Len(g.scores),
            !.marble_score = g.marble_score + 1]

Day09Init ==
    \E game \in ((1..MaxPlayers) \X (0..MaxMarbles)) \cup {TestGame} :
        /\ vector_game = solve_start(game[1], game[2])
        /\ list_game = solve_efficient_start(game[1], game[2])
        /\ instructions = <<>> /\ race = <<>>
        /\ CombatIdle

\* solve takes a marble when solve_efficient has caught up
SolveMarble ==
    /\ vector_game.pc = "loop"
    /\ vector_game.marble_score <= vector_game.last_marble_points
    /\ vector_game.marble_score = list_game.marble_score
    /\ vector_game' = solve_marble(vector_game)
    /\ UNCHANGED <<list_game, instructions, race, combat>>

SolveEfficientMarble ==
    /\ list_game.pc = "loop"
    /\ list_game.marble_score <= list_game.last_marble_points
    /\ list_game.marble_score < vector_game.marble_score
    /\ list_game' = solve_efficient_marble(list_game)
    /\ UNCHANGED <<vector_game, instructions, race, combat>>

\* line 182
SolveReturn ==
    /\ vector_game.pc = "loop"
    /\ vector_game.marble_score > vector_game.last_marble_points
    /\ vector_game' = [vector_game EXCEPT !.pc = "returned",
                                          !.returned = Some(MaxOf(vector_game.scores))]
    /\ UNCHANGED <<list_game, instructions, race, combat>>

\* line 207
SolveEfficientReturn ==
    /\ list_game.pc = "loop"
    /\ list_game.marble_score > list_game.last_marble_points
    /\ list_game' = [list_game EXCEPT !.pc = "returned",
                                      !.returned = Some(MaxOf(list_game.scores))]
    /\ UNCHANGED <<vector_game, instructions, race, combat>>

Day09Next ==
    \/ SolveMarble
    \/ SolveEfficientMarble
    \/ SolveReturn
    \/ SolveEfficientReturn

Day09Spec == Day09Init /\ [][Day09Next]_vars

(***************************************************************************)
(* C26.  solve and solve_efficient play the same game: after the same      *)
(* number of marbles the Vec read from the current index around and the    *)
(* list read from the current node along `next` are the same circle, the   *)
(* list reads the same backwards along `previous`, the scores of the       *)
(* players are equal, and the two functions return the same number.        *)
(***************************************************************************)
\* the values of `count` nodes from p along `link`
RECURSIVE Along(_, _, _, _)
Along(nodes, p, link, count) ==
    IF count = 0 THEN <<>>
    ELSE <<nodes[p].value>> \o Along(nodes, nodes[p][link], link, count - 1)

\* the Vec from index k (counted from 0) around
Around(v, k) == SubSeq(v, k + 1, Len(v)) \o SubSeq(v, 1, k)

Reversed(v) == [i \in DOMAIN v |-> v[Len(v) + 1 - i]]

SameMarbles ==
    vector_game.pc # "panicked" /\ vector_game.marble_score = list_game.marble_score

SameCircle(marbles, current_idx, nodes, current) ==
    /\ current_idx < Len(marbles)
    /\ Cardinality(DOMAIN nodes) = Len(marbles)
    /\ Along(nodes, current, "next", Len(marbles)) = Around(marbles, current_idx)
    /\ Along(nodes, nodes[current].previous, "previous", Len(marbles))
          = Reversed(Around(marbles, current_idx))

C26_SolversAgree ==
    /\ vector_game.pc # "panicked"
    /\ SameMarbles =>
          /\ SameCircle(vector_game.marbles, vector_game.current_idx,
                        list_game.nodes, list_game.current)
          /\ vector_game.scores = list_game.scores
          /\ vector_game.current_player_idx = list_game.current_player_idx
    /\ (vector_game.pc = "returned" /\ list_game.pc = "returned")
          => vector_game.returned = list_game.returned

\* both have kept a marble that solve found by counting back past the start
\* of the Vec
C26_Witness ==
    /\ SameMarbles
    /\ vector_game.marble_score > 1
    /\ (vector_game.marble_score - 1) % ScoringMarble = 0
    /\ vector_game.current_idx > Len(vector_game.marbles) - TakeDistance
    /\ vector_game.scores[1] > 0

(***************************************************************************)
(* src/day07.rs: the order of the steps.  A text is a sequence of lines, a *)
(* line a sequence of characters; a Step is held by the id it is stored    *)
(* under in the map of parse.                                              *)
(***************************************************************************)
\* most different step ids and most lines of an enumerated text
MaxSteps == 3
MaxLines == 3
\* most steps star_one is followed to put out (the loop has no cap of its own)
MaxOutput == 8

Letters ==
    <<"A", "B", "C", "D", "E", "F", "G", "H", "I", "J", "K", "L", "M",
      "N", "O", "P", "Q", "R", "S", "T", "U", "V", "W", "X", "Y", "Z">>

\* char::cmp on the letters
CharCode(c) == CHOOSE i \in DOMAIN Letters : Letters[i] = c

StepPrefix == <<"S", "t", "e", "p", " ">>
MustBeFinished ==
    <<" ", "m", "u", "s", "t", " ", "b", "e", " ", "f", "i", "n", "i", "s", "h", "e", "d", " ">>
        \o <<"b", "e", "f", "o", "r", "e", " ", "s", "t", "e", "p", " ">>
CanBegin == <<" ", "c", "a", "n", " ", "b", "e", "g", "i", "n", ".">>

\* the line that requires step a before step b
RequirementLine(a, b) == StepPrefix \o <<a>> \o MustBeFinished \o <<b>> \o CanBegin

\* EXAMPLE (lines 232-238) as pairs, and a line that is no requirement
ExamplePairs ==
    << <<"C", "A">>, <<"C", "F">>, <<"A", "B">>, <<"A", "D">>,
       <<"B", "E">>, <<"D", "E">>, <<"F", "E">> >>
Heading == <<"S", "t", "e", "p", "s", ":">>

TextOf(pairs) == [i \in DOMAIN pairs |-> RequirementLine(pairs[i][1], pairs[i][2])]

\* str::starts_with, str::trim_start_matches and str::rfind
starts_with(line, pattern) ==
    Len(line) >= Len(pattern) /\ SubSeq(line, 1, Len(pattern)) = pattern

RECURSIVE trim_start_matches(_, _)
trim_start_matches(line, pattern) ==
    IF starts_with(line, pattern)
    THEN trim_start_matches(SubSeq(line, Len(pattern) + 1, Len(line)), pattern)
    ELSE line

rfind(line, pattern) ==
    LET found == {pos \in 0..(Len(line) - Len(pattern)) :
                     SubSeq(line, pos + 1, pos + Len(pattern)) = pattern}
    IN  IF found = {} THEN None
        ELSE Some(CHOOSE pos \in found : \A other \in found : other <= pos)

\* lines 65-70
clean_lines(input) == SelectSeq(input, LAMBDA line : starts_with(line, StepPrefix))

\* lines 75-85 go through without a panic
LineOk(line) ==
    /\ trim_start_matches(line, StepPrefix) # <<>>
    /\ rfind(line, CanBegin) # None
    /\ rfind(line, CanBegin)[1] >= 1

\* lines 72-89: (id, id2) of a line
mapping(line) ==
    <<trim_start_matches(line, StepPrefix)[1], line[rfind(line, CanBegin)[1]]>>

mappings(input) ==
    [i \in DOMAIN clean_lines(input) |-> mapping(clean_lines(input)[i])]

\* lines 90-93
ids(maps) == {maps[i][1] : i \in DOMAIN maps} \cup {maps[i][2] : i \in DOMAIN maps}

\* lines 101-114: the pushes of add_required_by, in the order of the lines
RECURSIVE required_by(_, _)
required_by(maps, id1) ==
    IF maps = <<>> THEN <<>>
    ELSE IF Head(maps)[1] = id1
    THEN <<Head(maps)[2]>> \o required_by(Tail(maps), id1)
    ELSE required_by(Tail(maps), id1)

\* lines 116-130
requires_count(maps, value) ==
    Cardinality({other \in ids(maps) \ {value} :
                    \E i \in DOMAIN required_by(maps, other) :
                       required_by(maps, other)[i] = value})

\* lines 99 and 103
no_requirments(maps) == ids(maps) \ {maps[i][2] : i \in DOMAIN maps}

\* a collection in one of the orders a HashSet yields it
RECURSIVE SeqOf(_)
SeqOf(S) ==
    IF S = {} THEN <<>>
    ELSE LET e == CHOOSE x \in S : TRUE IN <<e>> \o SeqOf(S \ {e})

\* no sort: the stack as it was pushed
sort_skipped(stack) == stack

\* sort_by(|a, b| b.cmp(a)), stable
RECURSIVE sort_descending(_)
sort_descending(stack) ==
    IF stack = <<>> THEN <<>>
    ELSE LET last   == stack[Len(stack)]
             sorted == sort_descending(SubSeq(stack, 1, Len(stack) - 1))
         IN  SelectSeq(sorted, LAMBDA e : CharCode(e) >= CharCode(last))
                \o <<last>>
                \o SelectSeq(sorted, LAMBDA e : CharCode(e) < CharCode(last))

\* lines 64-139: the steps by id, and the first steps
parse(input) ==
    LET maps == mappings(input)
    IN  [steps  |-> [id1 \in ids(maps) |->
                        [unlock_count |-> requires_count(maps, id1),
                         required_by  |-> required_by(maps, id1)]],
         firsts |-> sort_descending(SeqOf(no_requirments(maps)))]

\* lines 22-26
unlock(step) ==
    IF step.unlock_count > 0
    THEN [step EXCEPT !.unlock_count = @ - 1]
    ELSE step

\* lines 153-159: the loop over required_by of the step popped.  `next` stays
\* borrowed for the whole loop, so borrow_mut on the same step panics.
RECURSIVE explore(_, _, _, _)
explore(steps, stack, next, to_explore) ==
    IF to_explore = <<>> THEN [steps |-> steps, stack |-> stack, panicked |-> FALSE]
    ELSE IF Head(to_explore) = next
    THEN [steps |-> steps, stack |-> stack, panicked |-> TRUE]
    ELSE LET id1      == Head(to_explore)
             unlocked == [steps EXCEPT ![id1] = unlock(steps[id1])]
         IN  explore(unlocked,
                     IF (\A i \in DOMAIN stack : stack[i] # id1)
                        /\ unlocked[id1].unlock_count = 0
                     THEN Append(stack, id1)
                     ELSE stack,
                     next, Tail(to_explore))

\* the texts star_one is followed on
Day07Pairs ==
    LET Ids == {Letters[i] : i \in 1..MaxSteps}
    IN  UNION {[1..n -> {r \in Ids \X Ids : r[1] # r[2]}] : n \in 0..MaxLines}

\* a step that requires itself, and a cycle entered through a line written twice
SelfPairs == << <<"A", "B">>, <<"B", "B">> >>
LoopPairs == << <<"A", "B">>, <<"A", "B">>, <<"B", "C">>, <<"C", "B">> >>

Day07Texts ==
    {[lines |-> TextOf(pairs), requirements |-> pairs] : pairs \in Day07Pairs}
        \cup {[lines |-> TextOf(ExamplePairs), requirements |-> ExamplePairs],
              [lines |-> <<Heading>> \o TextOf(ExamplePairs),
               requirements |-> ExamplePairs],
              [lines |-> TextOf(SelfPairs), requirements |-> SelfPairs],
              [lines |-> TextOf(LoopPairs), requirements |-> LoopPairs]}

\* lines 141-147; `requirements` remembers the pairs the lines were written from
Day07Init ==
    \E text \in Day07Texts :
        /\ instructions =
             IF \E i \in DOMAIN clean_lines(text.lines) : ~LineOk(clean_lines(text.lines)[i])
             THEN [input |-> text.lines, requirements |-> text.requirements,
                   steps |-> <<>>, stack |-> <<>>, result |-> <<>>, pc |-> "panicked"]
             ELSE [input |-> text.lines, requirements |-> text.requirements,
                   steps |-> parse(text.lines).steps,
                   stack |-> sort_descending(parse(text.lines).firsts),
                   result |-> <<>>, pc |-> "while"]
        /\ vector_game = <<>> /\ list_game = <<>> /\ race = <<>>
        /\ CombatIdle

\* lines 149-162: one pass of the while loop
Day07Pop ==
    /\ instructions # <<>>
    /\ instructions.pc = "while"
    /\ instructions.stack # <<>>
    /\ Len(instructions.result) < MaxOutput
    /\ LET stack    == instructions.stack
           next     == stack[Len(stack)]
           explored == explore(instructions.steps, SubSeq(stack, 1, Len(stack) - 1),
                               next, instructions.steps[next].required_by)
       IN  instructions' = [instructions EXCEPT
                               !.result = Append(@, next),
                               !.steps = explored.steps,
                               !.stack = sort_descending(explored.stack),
                               !.pc = IF explored.panicked THEN "panicked" ELSE @]
    /\ UNCHANGED <<vector_game, list_game, race, combat>>

\* line 165
Day07Return ==
    /\ instructions # <<>>
    /\ instructions.pc = "while"
    /\ instructions.stack = <<>>
    /\ instructions' = [instructions EXCEPT !.pc = "returned"]
    /\ UNCHANGED <<vector_game, list_game, race, combat>>

Day07Next == Day07Pop \/ Day07Return

Day07Spec == Day07Init /\ [][Day07Next]_vars

(***************************************************************************)
(* C27.  When the requirements of the text, each written once, have no     *)
(* cycle, star_one returns every step exactly once; every step of the      *)
(* result comes after all the steps it requires, and is the first in the   *)
(* alphabet of the steps that were ready when it was put out.              *)
(***************************************************************************)
Requirements == {instructions.requirements[i] : i \in DOMAIN instructions.requirements}

StepsNamed == {r[1] : r \in Requirements} \cup {r[2] : r \in Requirements}

\* no group of steps in which every step requires another of the group
Acyclic ==
    \A group \in SUBSET StepsNamed :
        group # {} => \E b \in group : \A a \in group : <<a, b>> \notin Requirements

EachWrittenOnce ==
    \A i, j \in DOMAIN instructions.requirements :
        instructions.requirements[i] = instructions.requirements[j] => i = j

\* the steps put out before the n-th
PutOutBefore(n) == {instructions.result[j] : j \in 1..(n - 1)}

\* the steps not among `done` whose requirements all are
Ready(done) ==
    {b \in StepsNamed \ done : \A a \in StepsNamed : <<a, b>> \in Requirements => a \in done}

InOrder(n) ==
    /\ instructions.result[n] \in Ready(PutOutBefore(n))
    /\ \A other \in Ready(PutOutBefore(n)) :
          CharCode(instructions.result[n]) <= CharCode(other)

C27_StepsInOrder ==
    (instructions # <<>> /\ Acyclic /\ EachWrittenOnce) =>
        /\ instructions.pc # "panicked"
        /\ \A n \in DOMAIN instructions.result : InOrder(n)
        /\ instructions.pc = "returned" =>
              /\ Len(instructions.result) = Cardinality(StepsNamed)
              /\ {instructions.result[n] : n \in DOMAIN instructions.result} = StepsNamed

\* the text of the tests has been put in order
C27_Witness ==
    /\ instructions # <<>>
    /\ instructions.input = TextOf(ExamplePairs)
    /\ instructions.pc = "returned"
    /\ instructions.result = <<"C", "A", "B", "D", "F", "E">>

(***************************************************************************)
(* C28.  A round is reported incomplete only when a living unit comes to   *)
(* its slot and finds no enemy alive: when turn returns the flag false,    *)
(* a living unit has not had its slot in this round.                       *)
(***************************************************************************)
\* the pointers of the living units whose slot was not processed this round
LivingUnitsLeft ==
    {state.combatants[l] : l \in DOMAIN state.combatants} \ (acted \cup
        {p \in DOMAIN heap : heap[p].is_dead})

C28_IncompleteRoundLeavesLivingUnit ==
    (pc = "returned" /\ ~turn_result.full_turn) => LivingUnitsLeft # {}

(***************************************************************************)
(* C29.  A living unit with no enemy next to it that reaches an Open cell  *)
(* next to a living enemy steps in its slot.  A step takes the unit to an  *)
(* orthogonal neighbour of its cell that was Open, which now holds the     *)
(* unit, and leaves the old cell Open; no other unit changes its place.    *)
(***************************************************************************)
OneStep ==
    \E to \in OpenNextTo(state, unit_location) :
        /\ KeysOf(state', unit) = {to}
        /\ CellAt(state', to) = Occupied(unit)
        /\ CellAt(state', unit_location) = Open
        /\ unit_location \notin DOMAIN state'.combatants

OthersStay ==
    \A l \in DOMAIN state.combatants :
        state.combatants[l] # unit => KeysOf(state', state.combatants[l]) \subseteq {l}

C29_UnitStepsOneOpenCell ==
    [][LivingSlot =>
         /\ (~InMelee /\ Goals(state, heap, heap[unit].unit_type, unit_location) # {})
               => Stepped
         /\ Stepped => OneStep
         /\ OthersStay]_vars

\* a unit that acted in this round stands one cell from where it began the
\* round, beside a Wall, and its old cell is Open
C29_Witness ==
    /\ pc = "slot" /\ round_start # None
    /\ \E p \in acted :
          /\ KeysOf(state, p) # {} /\ KeysOf(round_start[1].state, p) # {}
          /\ StandsAt(state, p) # StandsAt(round_start[1].state, p)
          /\ Adjacent(StandsAt(state, p), StandsAt(round_start[1].state, p))
          /\ CellAt(state, StandsAt(round_start[1].state, p)) = Open
          /\ \E w \in Locations(state) :
                Adjacent(w, StandsAt(round_start[1].state, p)) /\ CellAt(state, w) = Wall

(***************************************************************************)
(* C30.  A step is a step along a shortest path: when the destination was  *)
(* d cells away before the step, d is at least 1, and after the step the   *)
(* unit stands on the destination when d = 1 and is d - 1 cells away from  *)
(* it, on the grid as the step left it, when d > 1.                        *)
(***************************************************************************)
StepsCloser(d, now) ==
    /\ d >= 1
    /\ d = 1 => now = ChosenTarget
    /\ d > 1 => /\ now # ChosenTarget
                /\ PathLength(state', now, ChosenTarget) = d - 1

C30_StepShortensThePath ==
    [][Stepped =>
         StepsCloser(PathLength(state, unit_location, ChosenTarget),
                     StandsAt(state', unit))]_vars

\* the unit about to step is three or more cells from its destination and
\* has an Open neighbour that is no nearer to it
C30_Witness ==
    /\ LivingSlot /\ ~InMelee
    /\ possible_first_moves(state, heap, unit, unit_location) # {}
    /\ PathLength(state, unit_location, ChosenTarget) >= 3
    /\ \E n \in OpenNextTo(state, unit_location) :
          \/ PathLength(state, n, ChosenTarget) = NoDistance
          \/ PathLength(state, n, ChosenTarget)
                >= PathLength(state, unit_location, ChosenTarget)

(***************************************************************************)
(* C31.  The combat leaves the static parts alone: the grid keeps the      *)
(* height and width of the map, its Walls are the '#' of the map and no    *)
(* other cell, and no step of a combat changes the faction or the attack   *)
(* power of a unit, or adds or drops a unit of the heap.                   *)
(***************************************************************************)
MapCells == (0..(Len(input_text[1]) - 1)) \X (0..(Len(input_text) - 1))

WallsAsParsed ==
    /\ Locations(state) = MapCells
    /\ \A l \in MapCells :
          CellAt(state, l) = Wall <=> input_text[l[2] + 1][l[1] + 1] = "#"
    /\ \A l \in MapCells : CellAt(state, l).kind = "Wall" => CellAt(state, l) = Wall

UnitsKeepFactionAndPower ==
    /\ DOMAIN heap' = DOMAIN heap
    /\ \A p \in DOMAIN heap :
          /\ heap'[p].unit_type = heap[p].unit_type
          /\ heap'[p].strength = heap[p].strength

C31_StaticPartsStay ==
    /\ [](state # NoState => WallsAsParsed)
    /\ [][(pc = "turn" \/ pc = "slot" \/ pc = "returned")
             => UnitsKeepFactionAndPower]_vars

\* rounds have been fought on a map with a Wall: a unit has died and another
\* stands on a cell that was Open on the map
C31_Witness ==
    /\ state # NoState /\ id >= 1
    /\ \E l \in MapCells : CellAt(state, l) = Wall
    /\ \E p \in DOMAIN heap : heap[p].is_dead
    /\ \E l \in DOMAIN state.combatants : input_text[l[2] + 1][l[1] + 1] = "."

(***************************************************************************)
(* C32.  On a map with units of at most one faction, star_one makes one    *)
(* call of turn: no slot is worked through, the call reports a winner,     *)
(* the count of star_one is still zero and the value returned is 0.        *)
(***************************************************************************)
FactionsOnMap ==
    {input_text[y][x] : x \in DOMAIN input_text[1], y \in DOMAIN input_text}
        \cap {"G", "E"}

OneCallOfTurn ==
    /\ id = 0
    /\ acted = {}
    /\ state = GameState_from(input_text) /\ heap = ParseHeap(input_text)
    /\ pc \in {"turn", "slot", "returned", "done"}
    /\ pc = "returned" => turn_result.winner # None
    /\ pc = "done" => result = Some(0)
    /\ pc # "done" => result = None

C32_OneFactionScoresZero ==
    (driver = "star_one" /\ state # NoState /\ Cardinality(FactionsOnMap) <= 1)
        => OneCallOfTurn

\* star_one has returned on a map with two units of one faction
C32_Witness ==
    /\ driver = "star_one" /\ pc = "done" /\ result = Some(0)
    /\ Cardinality(FactionsOnMap) = 1
    /\ Cardinality(DOMAIN state.combatants) >= 2

(***************************************************************************)
(* src/day13.rs: the carts.  A text is a sequence of rows of characters;   *)
(* `race` holds the Track of star_two (grid and carts), the Cart cells     *)
(* (Rc<RefCell<Cart>>) as heap, and the locals of the running tick.        *)
(***************************************************************************)
\* most carts put on an enumerated track
MaxCarts == 3

\* a loop, and a loop that crosses itself
RingTrack ==
    << <<"/", "-", "-", "-", "\\">>,
       <<"|", " ", " ", " ", "|">>,
       <<"\\", "-", "-", "-", "/">> >>
EightTrack ==
    << <<"/", "-", "\\">>,
       <<"|", " ", "|">>,
       <<"\\", "-", "+", "-", "\\">>,
       <<" ", " ", "|", " ", "|">>,
       <<" ", " ", "\\", "-", "/">> >>
\* EXAMPLE_TWO (lines 505-513)
ExampleTwo ==
    << <<"/", ">", "-", "<", "\\">>,
       <<"|", " ", " ", " ", "|">>,
       <<"|", " ", "/", "<", "+", "-", "\\">>,
       <<"|", " ", "|", " ", "|", " ", "v">>,
       <<"\\", ">", "+", "<", "/", " ", "|">>,
       <<" ", " ", "|", " ", " ", " ", "^">>,
       <<" ", " ", "\\", "<", "-", ">", "/">> >>

CartGlyphs == {"^", ">", "v", "<"}

\* the locations of a text, counted from 0
TextCells(input) ==
    UNION {{<<x - 1, y - 1>> : x \in DOMAIN input[y]} : y \in DOMAIN input}

GlyphAt(input, l) == input[l[2] + 1][l[1] + 1]

\* the ways to put 1..MaxCarts carts on straight pieces of a track, each
\* heading along its piece
Placements(base) ==
    LET straight == {l \in TextCells(base) : GlyphAt(base, l) \in {"-", "|"}}
        sites == {S \in SUBSET straight : Cardinality(S) \in 1..MaxCarts}
    IN  UNION {{f \in [S -> CartGlyphs] :
                   \A l \in S : GlyphAt(base, l) = "-" <=> f[l] \in {"<", ">"}} :
               S \in sites}

WithCarts(base, f) ==
    [y \in DOMAIN base |-> [x \in DOMAIN base[y] |->
        IF <<x - 1, y - 1>> \in DOMAIN f THEN f[<<x - 1, y - 1>>] ELSE base[y][x]]]

Day13Texts ==
    {WithCarts(RingTrack, f) : f \in Placements(RingTrack)}
        \cup {WithCarts(EightTrack, f) : f \in Placements(EightTrack)}
        \cup {ExampleTwo}

\* lines 19-27 and 108-121
Direction_parse(c) ==
    CASE c = "^" -> Some("Up")
      [] c = ">" -> Some("Right")
      [] c = "v" -> Some("Down")
      [] c = "<" -> Some("Left")
      [] OTHER   -> None

TrackType_parse(c) ==
    CASE c = "-" -> Some("Horizontal")
      [] c = "|" -> Some("Vertical")
      [] c = "/" -> Some("Curve1")
      [] c = "\\" -> Some("Curve2")
      [] c = "+" -> Some("Intersection")
      [] c = "^" -> Some("Vertical")
      [] c = ">" -> Some("Horizontal")
      [] c = "v" -> Some("Vertical")
      [] c = "<" -> Some("Horizontal")
      [] OTHER   -> None

\* lines 38-46; a coordinate below 0 stands for the usize that underflowed
along(direction, location) ==
    CASE direction = "Up"    -> <<location[1], location[2] - 1>>
      [] direction = "Right" -> <<location[1] + 1, location[2]>>
      [] direction = "Down"  -> <<location[1], location[2] + 1>>
      [] direction = "Left"  -> <<location[1] - 1, location[2]>>

\* lines 48-64
Direction_counter_clockwise(direction) ==
    CASE direction = "Up"    -> "Left"
      [] direction = "Right" -> "Up"
      [] direction = "Down"  -> "Right"
      [] direction = "Left"  -> "Down"

Direction_clockwise(direction) ==
    CASE direction = "Up"    -> "Right"
      [] direction = "Right" -> "Down"
      [] direction = "Down"  -> "Left"
      [] direction = "Left"  -> "Up"

\* lines 75-89
Action_next(action) ==
    CASE action = "TurnLeft"  -> "Continue"
      [] action = "Continue"  -> "TurnRight"
      [] action = "TurnRight" -> "TurnLeft"

Action_new_direction(action, current_direction) ==
    CASE action = "TurnLeft"  -> Direction_counter_clockwise(current_direction)
      [] action = "Continue"  -> current_direction
      [] action = "TurnRight" -> Direction_clockwise(current_direction)

\* lines 142-158
Cart_new(direction) ==
    [current_direction |-> direction, current_action |-> "TurnLeft", is_alive |-> TRUE]

advance(cart) ==
    [cart EXCEPT !.current_direction =
                     Action_new_direction(cart.current_action, cart.current_direction),
                 !.current_action = Action_next(cart.current_action)]

change_direction(cart, new_direction) ==
    [cart EXCEPT !.current_direction = new_direction]

\* lines 410-451, for rows without blanks at their end and none empty: every
\* cell has an entry of carts; the carts are numbered in the order of the scan
CartCells(input) == {l \in TextCells(input) : Direction_parse(GlyphAt(input, l)) # None}

CartPointer(input, l) ==
    Cardinality({m \in CartCells(input) : m[2] < l[2] \/ (m[2] = l[2] /\ m[1] <= l[1])})

Track_from(input) ==
    [grid  |-> [l \in TextCells(input) |-> TrackType_parse(GlyphAt(input, l))],
     carts |-> [l \in TextCells(input) |->
                  IF l \in CartCells(input) THEN <<CartPointer(input, l)>> ELSE <<>>],
     heap  |-> [p \in 1..Cardinality(CartCells(input)) |->
                  Cart_new(Direction_parse(GlyphAt(input,
                      CHOOSE l \in CartCells(input) : CartPointer(input, l) = p))[1])]]

\* the carts of `entry` that are alive
AliveIn(arena, entry) == {i \in DOMAIN entry : arena[entry[i]].is_alive}

\* lines 194-201
num_alive_carts(carts, arena) ==
    Cardinality({<<l, i>> \in UNION {{<<m, j>> : j \in DOMAIN carts[m]} : m \in DOMAIN carts} :
                    arena[carts[l][i]].is_alive})

\* lines 203-215
alive_carts_locations(carts, arena) ==
    {l \in DOMAIN carts : AliveIn(arena, carts[l]) # {}}

\* lines 218-231: the locations with a live cart, by x and then by y
RECURSIVE SortByColumn(_)
SortByColumn(S) ==
    IF S = {} THEN <<>>
    ELSE LET first == CHOOSE a \in S : \A b \in S \ {a} :
                         a[1] < b[1] \/ (a[1] = b[1] /\ a[2] < b[2])
         IN  <<first>> \o SortByColumn(S \ {first})

tick_order(carts, arena) == SortByColumn(alive_carts_locations(carts, arena))

\* a collision that wrecks the arriving cart only
crash_of_the_arriving(arena, entry) ==
    IF Cardinality(AliveIn(arena, entry)) > 1
    THEN [arena EXCEPT ![entry[Len(entry)]].is_alive = FALSE]
    ELSE arena

\* lines 255-259 (and 276-280, 305-311, 336-342, 353-358): more than one
\* live cart in the entry wrecks every cart of it
crash(arena, entry) ==
    IF Cardinality(AliveIn(arena, entry)) > 1
    THEN [p \in DOMAIN arena |->
            IF \E i \in DOMAIN entry : entry[i] = p
            THEN [arena[p] EXCEPT !.is_alive = FALSE]
            ELSE arena[p]]
    ELSE arena

\* lines 288-301 and 319-332
curve(track_type, direction) ==
    IF track_type = "Curve1"
    THEN CASE direction = "Up"    -> "Right"
           [] direction = "Right" -> "Up"
           [] direction = "Down"  -> "Left"
           [] direction = "Left"  -> "Down"
    ELSE CASE direction = "Up"    -> "Left"
           [] direction = "Right" -> "Down"
           [] direction = "Down"  -> "Right"
           [] direction = "Left"  -> "Up"

\* lines 264-272: the assertion on a straight piece
straight_ok(track_type, direction) ==
    \/ track_type = "Horizontal" /\ direction \in {"Left", "Right"}
    \/ track_type = "Vertical" /\ direction \in {"Up", "Down"}

\* lines 246-253, 273, 286-303, 317-334: the cart as it leaves a piece of track
cart_leaving(track_type, cart) ==
    CASE track_type = "Intersection" -> advance(cart)
      [] track_type \in {"Horizontal", "Vertical"} -> cart
      [] OTHER -> change_direction(cart, curve(track_type, cart.current_direction))

\* lines 245-365 for one live cart: t holds grid, new_carts, heap, panicked
move_cart(t, location, p) ==
    IF \/ location \notin DOMAIN t.grid
       \/ t.grid[location] = None
       \/ (t.grid[location][1] \in {"Horizontal", "Vertical"}
             /\ ~straight_ok(t.grid[location][1], t.heap[p].current_direction))
    THEN [t EXCEPT !.panicked = TRUE]
    ELSE LET moved == cart_leaving(t.grid[location][1], t.heap[p])
             to    == along(moved.current_direction, location)
             entry == (IF to \in DOMAIN t.new_carts THEN t.new_carts[to] ELSE <<>>)
                         \o <<p>>
         IN  IF to[1] < 0 \/ to[2] < 0
             THEN [t EXCEPT !.panicked = TRUE]
             ELSE [t EXCEPT
                     !.heap = crash(crash([t.heap EXCEPT ![p] = moved], entry), entry),
                     !.new_carts = [l \in DOMAIN t.new_carts \cup {to} |->
                                      IF l = location THEN <<>>
                                      ELSE IF l = to THEN entry
                                      ELSE t.new_carts[l]]]

\* lines 237-370: the carts the location held when the tick began
RECURSIVE move_carts(_, _, _)
move_carts(t, location, carts) ==
    IF carts = <<>> \/ t.panicked THEN t
    ELSE IF ~t.heap[Head(carts)].is_alive
    THEN move_carts(t, location, Tail(carts))
    ELSE move_carts(move_cart(t, location, Head(carts)), location, Tail(carts))

\* lines 465-468
Day13Init ==
    \E input \in Day13Texts :
        /\ race = [input |-> input,
                   grid |-> Track_from(input).grid,
                   carts |-> Track_from(input).carts,
                   heap |-> Track_from(input).heap,
                   order |-> <<>>, new_carts |-> <<>>,
                   pc |-> "loop", returned |-> None]
        /\ vector_game = <<>> /\ list_game = <<>> /\ instructions = <<>>
        /\ CombatIdle

\* lines 471 and 218-233: tick(false) is called
TickBegin ==
    /\ race # <<>>
    /\ race.pc = "loop"
    /\ race' = [race EXCEPT !.order = tick_order(race.carts, race.heap),
                            !.new_carts = race.carts,
                            !.pc = "tick"]
    /\ UNCHANGED <<vector_game, list_game, instructions, combat>>

\* lines 235-371: one pass of the outer loop
TickLocation ==
    /\ race # <<>>
    /\ race.pc = "tick"
    /\ race.order # <<>>
    /\ LET after == move_carts([grid |-> race.grid, new_carts |-> race.new_carts,
                                heap |-> race.heap, panicked |-> FALSE],
                               Head(race.order), race.carts[Head(race.order)])
       IN  race' = [race EXCEPT !.order = Tail(race.order),
                                !.new_carts = after.new_carts,
                                !.heap = after.heap,
                                !.pc = IF after.panicked THEN "panicked" ELSE "tick"]
    /\ UNCHANGED <<vector_game, list_game, instructions, combat>>

\* line 373
TickEnd ==
    /\ race # <<>>
    /\ race.pc = "tick"
    /\ race.order = <<>>
    /\ race' = [race EXCEPT !.carts = race.new_carts, !.pc = "ticked"]
    /\ UNCHANGED <<vector_game, list_game, instructions, combat>>

\* lines 472-491: the loop of star_two after the tick
Day13Check ==
    /\ race # <<>>
    /\ race.pc = "ticked"
    /\ race' =
         IF num_alive_carts(race.carts, race.heap) = 1
         THEN [race EXCEPT !.pc = "returned",
                           !.returned = Some(CHOOSE l \in alive_carts_locations(
                                                 race.carts, race.heap) : TRUE)]
         ELSE IF num_alive_carts(race.carts, race.heap) % 2 = 1
         THEN [race EXCEPT !.pc = "loop"]
         ELSE [race EXCEPT !.pc = "panicked"]
    /\ UNCHANGED <<vector_game, list_game, instructions, combat>>

Day13Next == TickBegin \/ TickLocation \/ TickEnd \/ Day13Check

Day13Spec == Day13Init /\ [][Day13Next]_vars

(***************************************************************************)
(* C33.  day13::star_two started with an odd number of carts on a valid    *)
(* track: a step of the tick destroys either no cart or exactly two, the   *)
(* cart that moved and a live cart that stood on the cell it moved onto;   *)
(* no wreck comes back to life; after every tick the number of live carts  *)
(* is odd, so the assertion never fails; and the loop stops exactly when   *)
(* one live cart remains, returning where it stands.                       *)
(***************************************************************************)
OddStart ==
    Cardinality({l \in TextCells(race.input) : GlyphAt(race.input, l) \in CartGlyphs}) % 2 = 1

LiveCarts(r) == {p \in DOMAIN r.heap : r.heap[p].is_alive}

StoodOn(held, p, cell) ==
    cell \in DOMAIN held /\ \E i \in DOMAIN held[cell] : held[cell][i] = p

DestroyedInPairs ==
    /\ LiveCarts(race') \subseteq LiveCarts(race)
    /\ \/ LiveCarts(race') = LiveCarts(race)
       \/ /\ race.pc = "tick" /\ race.order # <<>>
          /\ \E mover, resident \in LiveCarts(race) :
               /\ mover # resident
               /\ LiveCarts(race) \ LiveCarts(race') = {mover, resident}
               /\ StoodOn(race.carts, mover, Head(race.order))
               /\ \E cell \in DOMAIN race'.new_carts :
                    /\ cell # Head(race.order)
                    /\ StoodOn(race.new_carts, resident, cell)
                    /\ StoodOn(race'.new_carts, mover, cell)
                    /\ StoodOn(race'.new_carts, resident, cell)

C33_CartsDieInPairs ==
    /\ []((race # <<>> /\ OddStart) =>
            /\ race.pc # "panicked"
            /\ race.pc \in {"ticked", "loop", "returned"} =>
                 Cardinality(LiveCarts(race)) % 2 = 1
            /\ race.pc = "returned" =>
                 /\ Cardinality(LiveCarts(race)) = 1
                 /\ \E l \in DOMAIN race.carts :
                      /\ race.returned = Some(l)
                      /\ \E p \in LiveCarts(race) : StoodOn(race.carts, p, l))
    /\ [][(race # <<>> /\ OddStart) => DestroyedInPairs]_vars
    /\ [][(race # <<>> /\ OddStart /\ race.pc = "ticked") =>
            /\ race'.pc \in {"loop", "returned"}
            /\ race'.pc = "returned" <=> Cardinality(LiveCarts(race)) = 1]_vars

\* EXAMPLE_TWO: nine carts, eight of them wrecked in pairs, the last at 6,4
C33_Witness ==
    /\ race # <<>>
    /\ race.input = ExampleTwo
    /\ OddStart
    /\ race.pc = "returned"
    /\ race.returned = Some(<<6, 4>>)
    /\ Cardinality(DOMAIN race.heap \ LiveCarts(race)) = 8

(***************************************************************************)
(* C34.  in_range(loc, only_open) returns exactly the orthogonal           *)
(* neighbours of loc that lie inside the grid and are Open, and also the   *)
(* Occupied ones when only_open is false; it never returns a Wall, a       *)
(* location outside the grid, loc itself, or a location twice.             *)
(***************************************************************************)
NeighboursWanted(s, loc, only_open) ==
    {m \in Locations(s) :
        /\ Adjacent(loc, m)
        /\ \/ CellAt(s, m).kind = "Open"
           \/ ~only_open /\ CellAt(s, m).kind = "Occupied"}

C34_InRangeIsTheOpenNeighbours ==
    CalledFunction("in_range") =>
        LET loc       == call[1].arguments[1]
            only_open == call[1].arguments[2]
            returned  == call[1].returned
        IN  /\ {returned[i] : i \in DOMAIN returned} = NeighboursWanted(state, loc, only_open)
            /\ \A i, j \in DOMAIN returned : returned[i] = returned[j] => i = j
            /\ \A i \in DOMAIN returned :
                 /\ returned[i] \in Locations(state)
                 /\ CellAt(state, returned[i]).kind # "Wall"
                 /\ returned[i] # loc

\* the middle cell of a map with a wall, a unit and two Open cells around it
C34_Witness ==
    /\ CalledFunction("in_range")
    /\ call[1].arguments = << <<1, 1>>, TRUE >>
    /\ Len(call[1].returned) = 2
    /\ \E m \in Locations(state) :
          Adjacent(<<1, 1>>, m) /\ CellAt(state, m).kind = "Occupied"
    /\ \E m \in Locations(state) :
          Adjacent(<<1, 1>>, m) /\ CellAt(state, m).kind = "Wall"

====
